---- MODULE Spec2Model ----
(***************************************************************************)
(* A model of the MOS 6502 core of Nessy (src/src/mos6502.rs) and of the   *)
(* PPU dot counter (src/src/ppu/ppu_2c02.rs).                              *)
(*                                                                         *)
(* The CPU is a record (regset, time, inter, bus_conn, i, mem, ...); every *)
(* method of `Cpu` is an operator from a CPU record to the CPU record the  *)
(* call leaves behind, and every action of the specification is one call   *)
(* of a public method made by the surrounding driver.                      *)
(***************************************************************************)
EXTENDS Integers, Sequences, FiniteSets, TLC

VARIABLES
    regset,     \* Cpu.regset  : RegisterSet
    time,       \* Cpu.time    : Timings
    inter,      \* Cpu.inter   : InterruptHandling
    bus_conn,   \* Cpu.bus_conn: Option<Rc<RefCell<dyn CommunicationInterface>>>
    i,          \* Cpu.i       : Option<Instruction>
    mem,        \* MainBus.mem of every bus that exists, zero bytes left out
    panicked,   \* a panic!/unimplemented!/overflow check has ended the program
    overflow_checks, \* the build: TRUE = overflow checks on (debug), FALSE = wrapping
    lastcall,   \* history: the last call the driver made, what it found and returned
    calls,      \* history: number of calls made so far
    log,        \* history: every call so far, oldest first (kept when logging)
    logging,    \* whether the specification keeps the log
    budget,     \* the number of calls the driver of the specification makes
    ppu,        \* Ppu: reg_set.dot (scanline, cycles) and frame_end
    ppu_run     \* the PPU's driver: its position in full_frame, and history: its last
                \* call, the clocks since construction or the last frame end, and
                \* whether no reset fell among them

vars == <<regset, time, inter, bus_conn, i, mem, panicked, overflow_checks, lastcall, calls,
          log, logging, budget, ppu, ppu_run>>

---------------------------------------------------------------------------
(* Bounds of the model *)

\* the driver makes at most this many calls
MaxCalls == 4

---------------------------------------------------------------------------
(* Program constants *)

NMI_VECTOR == 65530
RESET_VECTOR == 65532
IRQ_VECTOR == 65534
BRK_VECTOR == 65534
STACK_OFFSET == 256
RAM_SIZE == 65536

Byte == 0..255
Address == 0..65535

None == <<>>
Some(v) == <<v>>

BusIds == {1, 2}

---------------------------------------------------------------------------
(* Bits and bytes *)

Bit(v, n) == (v \div (2^n)) % 2

\* (a & b), (a | b), (a ^ b) on 8-bit values
AndB(a, b) ==
    LET f[n \in 0..8] == IF n = 8 THEN 0 ELSE Bit(a, n) * Bit(b, n) * (2^n) + f[n + 1]
    IN  f[0]

OrB(a, b) == a + b - AndB(a, b)

XorB(a, b) == a + b - 2 * AndB(a, b)

\* Word::from_le_bytes([lo, hi])
from_le_bytes(lo, hi) == lo + 256 * hi

\* (data >> 8) as u8 and (data) as u8
hi_byte(w) == (w \div 256) % 256

lo_byte(w) == w % 256

\* bit!(n, name): (self.status & (1 << n)) != 0
bit(status, n) == Bit(status, n) = 1

\* mutant: the setter only ever sets the bit: self.status | ((value as u8) << n)
bit_setter_or_only(status, n, value) ==
    status + (IF value /\ Bit(status, n) = 0 THEN 2^n ELSE 0)

\* bit_setter!(n, name): (self.status & !(1 << n)) | ((value as u8) << n)
bit_setter(status, n, value) ==
    status - Bit(status, n) * (2^n) + (IF value THEN 2^n ELSE 0)

carry(r) == bit(r.status, 0)
zero(r) == bit(r.status, 1)
irq_disabled(r) == bit(r.status, 2)
decimal_mode(r) == bit(r.status, 3)
brk_flag(r) == bit(r.status, 4)
unused(r) == bit(r.status, 5)
overflowed(r) == bit(r.status, 6)
negative(r) == bit(r.status, 7)

set_carry(r, v) == [r EXCEPT !.status = bit_setter(@, 0, v)]
set_zero(r, v) == [r EXCEPT !.status = bit_setter(@, 1, v)]
set_irq_disabled(r, v) == [r EXCEPT !.status = bit_setter(@, 2, v)]
set_decimal_mode(r, v) == [r EXCEPT !.status = bit_setter(@, 3, v)]
set_brk(r, v) == [r EXCEPT !.status = bit_setter(@, 4, v)]
set_unused(r, v) == [r EXCEPT !.status = bit_setter(@, 5, v)]
set_overflowed(r, v) == [r EXCEPT !.status = bit_setter(@, 6, v)]
set_negative(r, v) == [r EXCEPT !.status = bit_setter(@, 7, v)]

---------------------------------------------------------------------------
(* RegisterSet, Timings, InterruptHandling, Cpu *)

\* mutant: the register set starts with the interrupt-disable flag clear
RegisterSet_new_irq_enabled ==
    [accumulator |-> 0, x_index |-> 0, y_index |-> 0, stk_ptr |-> 253,
     prog_counter |-> 0, status |-> 32]

RegisterSet_new ==
    [accumulator |-> 0, x_index |-> 0, y_index |-> 0, stk_ptr |-> 253,
     prog_counter |-> 0, status |-> 36]

RegisterSet_new_custompc(custom_prog_counter) ==
    [RegisterSet_new EXCEPT !.prog_counter = custom_prog_counter]

\* MainBus::new: vec![0x00; RAM_SIZE]; a memory is the function of its non-zero bytes
MainBus_new == <<>>

\* Cpu::new, given the build the program was compiled with
Cpu_new(checks) ==
    [regset |-> RegisterSet_new,
     time |-> [elapsed |-> 0, residual |-> 0],
     inter |-> [pending_nmi |-> FALSE, pending_irq |-> FALSE],
     bus_conn |-> None,
     i |-> None,
     mem |-> [b \in BusIds |-> MainBus_new],
     panicked |-> FALSE,
     overflow_checks |-> checks,
     fail |-> "none",     \* the Err the instruction's functions are made to return
     ret |-> None,        \* what the call returned
     fetches |-> 0,       \* opcodes fetched during the call
     ticks |-> 0,         \* Timings::next calls during the call
     underflow |-> FALSE] \* Timings::next met residual == 0 during the call

\* Cpu::new_connected
Cpu_new_connected(checks, bus) == [Cpu_new(checks) EXCEPT !.bus_conn = bus]

\* Cpu::new_custompc
Cpu_new_custompc(checks, custom_prog_counter) ==
    [Cpu_new(checks) EXCEPT !.regset = RegisterSet_new_custompc(custom_prog_counter)]

\* a panic ends the call where it stands
Panic(c) == [c EXCEPT !.panicked = TRUE]

---------------------------------------------------------------------------
(* The bus: MainBus and the Cpu's wrappers *)

\* MainBus::read
MainBus_read(m, address) == IF address \in DOMAIN m THEN m[address] ELSE 0

\* MainBus::write
MainBus_write(m, address, data) ==
    IF data = 0
    THEN [x \in (DOMAIN m) \ {address} |-> m[x]]
    ELSE [x \in (DOMAIN m) \cup {address} |-> IF x = address THEN data ELSE m[x]]

\* Cpu::read_byte
read_byte(c, address) ==
    IF c.bus_conn = None THEN 0 ELSE MainBus_read(c.mem[c.bus_conn[1]], address)

\* Cpu::writ_byte
writ_byte(c, address, data) ==
    IF c.bus_conn = None THEN c
    ELSE [c EXCEPT !.mem[c.bus_conn[1]] = MainBus_write(@, address, data)]

\* Cpu::read_word: `address + 1` overflows for address == 0xFFFF
read_word_overflows(c, address) == c.overflow_checks /\ address + 1 > 65535

read_word(c, address) ==
    from_le_bytes(read_byte(c, address), read_byte(c, (address + 1) % 65536))

\* Cpu::inc_pc (the old value is c.regset.prog_counter)
inc_pc(c) == [c EXCEPT !.regset.prog_counter = (@ + 1) % 65536]

\* Cpu::fetch: the byte read, and the Cpu after the read
fetch_byte(c) == read_byte(c, c.regset.prog_counter)

fetch(c) == inc_pc(c)

---------------------------------------------------------------------------
(* Stack primitives *)

\* mutant: the pointer does not wrap from 0xFF to 0x00
stk_ptr_inc_saturating(c) == [c EXCEPT !.regset.stk_ptr = IF @ = 255 THEN 255 ELSE @ + 1]

\* Cpu::stk_ptr_inc: returns the new pointer
stk_ptr_inc(c) == [c EXCEPT !.regset.stk_ptr = (@ + 1) % 256]

\* mutant: a checked subtraction, which panics at 0x00 instead of wrapping
stk_ptr_dec_checked(c) ==
    IF c.regset.stk_ptr = 0 THEN Panic(c) ELSE [c EXCEPT !.regset.stk_ptr = @ - 1]

\* Cpu::stk_ptr_dec: returns the old pointer
stk_ptr_dec(c) == [c EXCEPT !.regset.stk_ptr = (@ + 255) % 256]

\* mutant: the byte is written at the decremented pointer
stk_push_predecrement(c, data) ==
    writ_byte(stk_ptr_dec(c), STACK_OFFSET + stk_ptr_dec(c).regset.stk_ptr, data)

\* Cpu::stk_push
stk_push(c, data) ==
    LET stk_ptr == c.regset.stk_ptr
        addr == STACK_OFFSET + stk_ptr
    IN  writ_byte(stk_ptr_dec(c), addr, data)

\* mutant: the low byte is pushed first
stk_doublepush_low_first(c, data) == stk_push(stk_push(c, lo_byte(data)), hi_byte(data))

\* Cpu::stk_doublepush
stk_doublepush(c, data) == stk_push(stk_push(c, hi_byte(data)), lo_byte(data))

\* Cpu::stk_pop: the Cpu after the pop, and the byte popped
stk_pop(c) == stk_ptr_inc(c)

\* mutant: the pop reads at the pointer as it stands, before the increment
stk_pop_byte_postincrement(c) == read_byte(c, STACK_OFFSET + c.regset.stk_ptr)

stk_pop_byte(c) == read_byte(c, STACK_OFFSET + stk_ptr_inc(c).regset.stk_ptr)

---------------------------------------------------------------------------
(* The decode table *)

\* the arms of Instruction::decode_by: <<amode, fun, time, mnemonic, size>>;
\* <<>> is the default arm, make_illegal!() = unimplemented!()
decode_arm(opcode) ==
    CASE opcode = 0 -> <<"Imp", "brk", 7, "brk", 1>>
      [] opcode = 1 -> <<"Inx", "ora", 6, "ora", 2>>
      [] opcode = 5 -> <<"Zp0", "ora", 3, "ora", 2>>
      [] opcode = 6 -> <<"Zp0", "asl", 5, "asl", 2>>
      [] opcode = 8 -> <<"Imp", "php", 3, "php", 1>>
      [] opcode = 9 -> <<"Imm", "ora", 2, "ora", 2>>
      [] opcode = 10 -> <<"Imp", "asl", 2, "asl", 1>>
      [] opcode = 13 -> <<"Abs", "ora", 4, "ora", 3>>
      [] opcode = 14 -> <<"Abs", "asl", 6, "asl", 3>>
      [] opcode = 16 -> <<"Rel", "bpl", 2, "bpl", 2>>
      [] opcode = 17 -> <<"Iny", "ora", 5, "ora", 2>>
      [] opcode = 21 -> <<"Zpx", "ora", 4, "ora", 2>>
      [] opcode = 22 -> <<"Zpx", "asl", 6, "asl", 2>>
      [] opcode = 24 -> <<"Imp", "clc", 2, "clc", 1>>
      [] opcode = 25 -> <<"Aby", "ora", 4, "ora", 3>>
      [] opcode = 29 -> <<"Abx", "ora", 4, "ora", 3>>
      [] opcode = 30 -> <<"Abx", "asl", 7, "asl", 3>>
      [] opcode = 32 -> <<"Abs", "jsr", 6, "jsr", 3>>
      [] opcode = 33 -> <<"Inx", "and", 6, "and", 2>>
      [] opcode = 36 -> <<"Zp0", "bit", 3, "bit", 2>>
      [] opcode = 37 -> <<"Zp0", "and", 3, "and", 2>>
      [] opcode = 38 -> <<"Zp0", "rol", 5, "rol", 2>>
      [] opcode = 40 -> <<"Imp", "plp", 4, "plp", 1>>
      [] opcode = 41 -> <<"Imm", "and", 2, "and", 2>>
      [] opcode = 42 -> <<"Imp", "rol", 2, "rol", 1>>
      [] opcode = 44 -> <<"Abs", "bit", 4, "bit", 3>>
      [] opcode = 45 -> <<"Abs", "and", 4, "and", 3>>
      [] opcode = 46 -> <<"Abs", "rol", 6, "rol", 3>>
      [] opcode = 48 -> <<"Rel", "bmi", 2, "bmi", 2>>
      [] opcode = 49 -> <<"Iny", "and", 5, "and", 2>>
      [] opcode = 53 -> <<"Zpx", "and", 4, "and", 2>>
      [] opcode = 54 -> <<"Zpx", "rol", 6, "rol", 2>>
      [] opcode = 56 -> <<"Imp", "sec", 2, "sec", 1>>
      [] opcode = 57 -> <<"Aby", "and", 4, "and", 3>>
      [] opcode = 61 -> <<"Abx", "and", 4, "and", 3>>
      [] opcode = 62 -> <<"Abx", "rol", 7, "rol", 3>>
      [] opcode = 64 -> <<"Imp", "rti", 6, "rti", 1>>
      [] opcode = 65 -> <<"Inx", "eor", 6, "eor", 2>>
      [] opcode = 69 -> <<"Zp0", "eor", 3, "eor", 2>>
      [] opcode = 70 -> <<"Zp0", "lsr", 5, "lsr", 2>>
      [] opcode = 72 -> <<"Imp", "pha", 3, "pha", 1>>
      [] opcode = 73 -> <<"Imm", "eor", 2, "eor", 2>>
      [] opcode = 74 -> <<"Imp", "lsr", 2, "lsr", 1>>
      [] opcode = 76 -> <<"Abs", "jmp", 3, "jmp", 3>>
      [] opcode = 77 -> <<"Abs", "eor", 4, "eor", 3>>
      [] opcode = 78 -> <<"Abs", "lsr", 6, "lsr", 3>>
      [] opcode = 80 -> <<"Rel", "bvc", 2, "bvc", 2>>
      [] opcode = 81 -> <<"Iny", "eor", 5, "eor", 2>>
      [] opcode = 85 -> <<"Zpx", "eor", 4, "eor", 2>>
      [] opcode = 86 -> <<"Zpx", "lsr", 6, "lsr", 2>>
      [] opcode = 88 -> <<"Imp", "cli", 2, "cli", 1>>
      [] opcode = 89 -> <<"Aby", "eor", 4, "eor", 3>>
      [] opcode = 93 -> <<"Abx", "eor", 4, "eor", 3>>
      [] opcode = 94 -> <<"Abx", "lsr", 7, "lsr", 3>>
      [] opcode = 96 -> <<"Imp", "rts", 6, "rts", 1>>
      [] opcode = 97 -> <<"Inx", "adc", 6, "adc", 2>>
      [] opcode = 101 -> <<"Zp0", "adc", 3, "adc", 2>>
      [] opcode = 102 -> <<"Zp0", "ror", 5, "ror", 2>>
      [] opcode = 104 -> <<"Imp", "pla", 4, "pla", 1>>
      [] opcode = 105 -> <<"Imm", "adc", 2, "adc", 2>>
      [] opcode = 106 -> <<"Imp", "ror", 2, "ror", 1>>
      [] opcode = 108 -> <<"Ind", "jmp", 5, "jmp", 3>>
      [] opcode = 109 -> <<"Abs", "adc", 4, "adc", 3>>
      [] opcode = 110 -> <<"Abx", "ror", 7, "ror", 3>>
      [] opcode = 112 -> <<"Rel", "bvs", 2, "bvs", 2>>
      [] opcode = 113 -> <<"Iny", "adc", 5, "adc", 2>>
      [] opcode = 117 -> <<"Zpx", "adc", 4, "adc", 2>>
      [] opcode = 118 -> <<"Zpx", "ror", 6, "ror", 2>>
      [] opcode = 120 -> <<"Imp", "sei", 2, "sei", 1>>
      [] opcode = 121 -> <<"Aby", "adc", 4, "adc", 3>>
      [] opcode = 125 -> <<"Abx", "adc", 4, "adc", 3>>
      [] opcode = 126 -> <<"Abs", "ror", 6, "ror", 6>>
      [] opcode = 129 -> <<"Inx", "sta", 6, "sta", 2>>
      [] opcode = 132 -> <<"Zp0", "sty", 3, "sty", 2>>
      [] opcode = 133 -> <<"Zp0", "sta", 3, "sta", 2>>
      [] opcode = 134 -> <<"Zp0", "stx", 3, "stx", 2>>
      [] opcode = 136 -> <<"Imp", "dey", 2, "dey", 1>>
      [] opcode = 138 -> <<"Imp", "txa", 2, "txa", 1>>
      [] opcode = 140 -> <<"Abs", "sty", 4, "sty", 3>>
      [] opcode = 141 -> <<"Abs", "sta", 4, "sta", 3>>
      [] opcode = 142 -> <<"Abs", "stx", 4, "stx", 3>>
      [] opcode = 144 -> <<"Rel", "bcc", 2, "bcc", 2>>
      [] opcode = 145 -> <<"Iny", "sta", 6, "sta", 2>>
      [] opcode = 148 -> <<"Zpx", "sty", 4, "sty", 2>>
      [] opcode = 149 -> <<"Zpx", "sta", 4, "sta", 2>>
      [] opcode = 150 -> <<"Zpy", "stx", 4, "stx", 2>>
      [] opcode = 152 -> <<"Imp", "tya", 2, "tya", 1>>
      [] opcode = 153 -> <<"Aby", "sta", 5, "sta", 3>>
      [] opcode = 154 -> <<"Imp", "txs", 2, "txs", 1>>
      [] opcode = 157 -> <<"Abx", "sta", 5, "sta", 3>>
      [] opcode = 160 -> <<"Imm", "ldy", 2, "ldy", 2>>
      [] opcode = 161 -> <<"Inx", "lda", 6, "lda", 2>>
      [] opcode = 162 -> <<"Imm", "ldx", 2, "ldx", 2>>
      [] opcode = 164 -> <<"Zp0", "ldy", 3, "ldy", 2>>
      [] opcode = 165 -> <<"Zp0", "lda", 3, "lda", 2>>
      [] opcode = 166 -> <<"Zp0", "ldx", 3, "lda", 2>>
      [] opcode = 168 -> <<"Imp", "tay", 2, "tay", 1>>
      [] opcode = 169 -> <<"Imm", "lda", 2, "lda", 2>>
      [] opcode = 170 -> <<"Imp", "tax", 2, "tax", 1>>
      [] opcode = 172 -> <<"Abs", "ldy", 4, "ldy", 3>>
      [] opcode = 173 -> <<"Abs", "lda", 4, "lda", 3>>
      [] opcode = 174 -> <<"Abs", "ldx", 4, "ldx", 3>>
      [] opcode = 176 -> <<"Rel", "bcs", 2, "bcs", 2>>
      [] opcode = 177 -> <<"Iny", "lda", 5, "lda", 2>>
      [] opcode = 180 -> <<"Zpx", "ldy", 4, "ldy", 2>>
      [] opcode = 181 -> <<"Zpx", "lda", 4, "lda", 2>>
      [] opcode = 182 -> <<"Zpy", "ldx", 4, "ldx", 2>>
      [] opcode = 184 -> <<"Imp", "clv", 2, "clv", 1>>
      [] opcode = 185 -> <<"Aby", "lda", 4, "lda", 3>>
      [] opcode = 186 -> <<"Imp", "tsx", 2, "tsx", 1>>
      [] opcode = 188 -> <<"Abx", "ldy", 4, "ldy", 3>>
      [] opcode = 189 -> <<"Abx", "lda", 4, "lda", 3>>
      [] opcode = 190 -> <<"Aby", "ldx", 4, "ldx", 3>>
      [] opcode = 192 -> <<"Imm", "cpy", 2, "cpy", 2>>
      [] opcode = 193 -> <<"Inx", "cmp", 6, "cmp", 2>>
      [] opcode = 196 -> <<"Zp0", "cpy", 3, "cpy", 2>>
      [] opcode = 197 -> <<"Zp0", "cmp", 3, "cmp", 2>>
      [] opcode = 198 -> <<"Zp0", "dec", 5, "dec", 2>>
      [] opcode = 200 -> <<"Imp", "iny", 2, "iny", 1>>
      [] opcode = 201 -> <<"Imm", "cmp", 2, "cmp", 2>>
      [] opcode = 202 -> <<"Imp", "dex", 2, "dex", 1>>
      [] opcode = 204 -> <<"Abs", "cpy", 4, "cpy", 3>>
      [] opcode = 205 -> <<"Abs", "cmp", 4, "cmp", 3>>
      [] opcode = 206 -> <<"Abs", "dec", 6, "dec", 3>>
      [] opcode = 208 -> <<"Rel", "bne", 2, "bne", 2>>
      [] opcode = 209 -> <<"Iny", "cmp", 5, "cmp", 2>>
      [] opcode = 213 -> <<"Zpx", "cmp", 4, "cmp", 2>>
      [] opcode = 214 -> <<"Zpx", "dec", 6, "dec", 2>>
      [] opcode = 216 -> <<"Imp", "cld", 2, "cld", 1>>
      [] opcode = 217 -> <<"Aby", "cmp", 4, "cmp", 3>>
      [] opcode = 221 -> <<"Abx", "cmp", 4, "cmp", 3>>
      [] opcode = 222 -> <<"Abx", "dec", 7, "dec", 3>>
      [] opcode = 224 -> <<"Imm", "cpx", 2, "cpx", 2>>
      [] opcode = 225 -> <<"Inx", "sbc", 6, "sbc", 2>>
      [] opcode = 228 -> <<"Zp0", "cpx", 3, "cpx", 2>>
      [] opcode = 229 -> <<"Zp0", "sbc", 3, "sbc", 2>>
      [] opcode = 230 -> <<"Zp0", "inc", 5, "inc", 2>>
      [] opcode = 232 -> <<"Imp", "inx", 2, "inx", 1>>
      [] opcode = 233 -> <<"Imm", "sbc", 2, "sbc", 2>>
      [] opcode = 234 -> <<"Imp", "nop", 2, "nop", 1>>
      [] opcode = 236 -> <<"Abs", "cpx", 4, "cpx", 3>>
      [] opcode = 237 -> <<"Abs", "sbc", 4, "sbc", 3>>
      [] opcode = 238 -> <<"Abs", "inc", 6, "inc", 3>>
      [] opcode = 240 -> <<"Rel", "beq", 2, "beq", 2>>
      [] opcode = 241 -> <<"Iny", "sbc", 5, "sbc", 2>>
      [] opcode = 245 -> <<"Zpx", "sbc", 4, "sbc", 2>>
      [] opcode = 246 -> <<"Zpx", "inc", 6, "inc", 2>>
      [] opcode = 248 -> <<"Imp", "sed", 2, "sed", 1>>
      [] opcode = 249 -> <<"Aby", "sbc", 4, "sbc", 3>>
      [] opcode = 253 -> <<"Abx", "sbc", 4, "sbc", 3>>
      [] opcode = 254 -> <<"Abx", "inc", 7, "inc", 3>>
      [] OTHER -> <<>>

\* mutant: an opcode the table does not define decodes as a nop
DecodeTable_nop_default ==
    [opcode \in Byte |-> IF decode_arm(opcode) = <<>> THEN <<"Imp", "nop", 2, "nop", 1>>
                         ELSE decode_arm(opcode)]

DecodeTable == [opcode \in Byte |-> decode_arm(opcode)]

is_illegal(opcode) == DecodeTable[opcode] = <<>>

\* AddressingOutput
Fetched(value, address) == [tag |-> "Fetched", value |-> value, address |-> address]
ValueOnly(value) == [tag |-> "ValueOnly", value |-> value, address |-> 0]
AbsoluteAddress(address) == [tag |-> "AbsoluteAddress", value |-> 0, address |-> address]
NotExecuted == [tag |-> "NotExecuted", value |-> 0, address |-> 0]

\* make_instr!
make_instr(p_amode, p_fun, p_time, p_mnemonic, p_size) ==
    [amode |-> p_amode, fun |-> p_fun, time |-> p_time, mnemonic |-> p_mnemonic,
     size |-> p_size, amode_output |-> NotExecuted, operand |-> None, loaded_from |-> 0]

\* Instruction::decode_by, for an opcode the table defines
decode_by(opcode) ==
    LET e == DecodeTable[opcode]
    IN  make_instr(e[1], e[2], e[3], e[4], e[5])

---------------------------------------------------------------------------
(* Operand loading *)

\* the number of operand bytes load_operand_curr_i fetches for a mode
num_fetched(amode) ==
    CASE amode = "Imp" -> 0
      [] amode \in {"Imm", "Zp0", "Zpx", "Zpy", "Inx", "Iny", "Rel"} -> 1
      [] amode \in {"Abs", "Abx", "Aby", "Ind"} -> 2

\* load_operand_curr_i: `cpu.pc() - 1` overflows when the program counter is 0
load_operand_curr_i(c) ==
    IF c.i = None THEN c
    ELSE IF c.regset.prog_counter = 0 /\ c.overflow_checks THEN Panic(c)
    ELSE
        LET loaded_from == (c.regset.prog_counter + 65535) % 65536
            n == num_fetched(c.i[1].amode)
            c1 == IF n >= 1 THEN fetch(c) ELSE c
            c2 == IF n = 2 THEN fetch(c1) ELSE c1
            operand == CASE n = 0 -> None
                         [] n = 1 -> Some(fetch_byte(c))
                         [] n = 2 -> Some(from_le_bytes(fetch_byte(c), fetch_byte(c1)))
        IN  [c2 EXCEPT !.i = Some([c.i[1] EXCEPT !.loaded_from = loaded_from,
                                                  !.operand = operand])]

---------------------------------------------------------------------------
(* The addressing-mode resolver (module mos6502_addressing_modes)          *)

\* the in-flight instruction and its parts
curr_i(c) == c.i[1]

operand_of(c) == curr_i(c).operand[1]

\* a mode that needs operand bytes finds none loaded: ExpectedOperandMissing
addressing_fails(c) ==
    \/ c.fail = "addressing"
    \/ c.i = None
    \/ curr_i(c).amode # "Imp" /\ curr_i(c).operand = None

\* the address an indexed mode resolves to, before and after the index is added
amode_base(c) ==
    LET m == curr_i(c).amode
        op == operand_of(c)
    IN  CASE m \in {"Abx", "Aby"} -> op
          [] m = "Iny" -> from_le_bytes(read_byte(c, op % 256), read_byte(c, (op + 1) % 256))
          [] OTHER -> 0

\* mutant: the high byte of the target is always read from the pointer plus one
ind_target_no_wrap(c, ptr) ==
    from_le_bytes(read_byte(c, ptr), read_byte(c, (ptr + 1) % 65536))

\* the Indirect mode's target: the high byte of the target is read from the
\* pointer's own page when the pointer's low byte is 0xFF
ind_target(c, ptr) ==
    IF lo_byte(ptr) = 255
    THEN from_le_bytes(read_byte(c, ptr), read_byte(c, ptr - 255))
    ELSE from_le_bytes(read_byte(c, ptr), read_byte(c, ptr + 1))

\* a signed 8-bit displacement
signed8(b) == IF b >= 128 THEN b - 256 ELSE b

\* to_fun(amode) applied to the Cpu: the AddressingOutput
amode_fun(c) ==
    LET m == curr_i(c).amode
        op == operand_of(c)
        x == c.regset.x_index
        y == c.regset.y_index
        at(a) == Fetched(read_byte(c, a), a)
    IN  CASE m = "Imp" -> NotExecuted
          [] m = "Imm" -> ValueOnly(op % 256)
          [] m = "Zp0" -> at(op % 256)
          [] m = "Zpx" -> at((op + x) % 256)
          [] m = "Zpy" -> at((op + y) % 256)
          [] m = "Abs" -> at(op)
          [] m = "Abx" -> at((op + x) % 65536)
          [] m = "Aby" -> at((op + y) % 65536)
          [] m = "Ind" -> AbsoluteAddress(ind_target(c, op))
          [] m = "Inx" -> at(from_le_bytes(read_byte(c, (op + x) % 256),
                                           read_byte(c, (op + x + 1) % 256)))
          [] m = "Iny" -> at((amode_base(c) + y) % 65536)
          [] m = "Rel" -> AbsoluteAddress((c.regset.prog_counter + signed8(op % 256) + 65536) % 65536)

\* an indexed mode crossed a 256-byte page boundary
page_crossed(c) ==
    /\ curr_i(c).amode \in {"Abx", "Aby", "Iny"}
    /\ hi_byte(amode_base(c)) # hi_byte(curr_i(c).amode_output.address)

---------------------------------------------------------------------------
(* The operation table (module mos6502_instruction_set)                    *)

\* the byte an operation works on: the accumulator in Implied mode
op_value(c) ==
    IF curr_i(c).amode = "Imp" THEN c.regset.accumulator ELSE curr_i(c).amode_output.value

op_address(c) == curr_i(c).amode_output.address

\* zero == (R == 0) and negative == (bit 7 of R)
set_zn(r, v) == set_negative(set_zero(r, v = 0), v >= 128)

\* the operations that pay for a crossed page
ReadOps == {"lda", "ldx", "ldy", "adc", "sbc", "and", "ora", "eor", "cmp"}

\* the operations that store to the resolved address
StoreOps == {"sta", "stx", "sty", "inc", "dec"}

\* an operation that needs an address finds none resolved: BadAddressing
execute_fails(c) ==
    \/ c.fail = "executing"
    \/ c.i = None
    \/ /\ curr_i(c).fun \in StoreOps \cup {"jmp", "jsr"}
       /\ curr_i(c).amode_output.tag \notin {"Fetched", "AbsoluteAddress"}

with_reg(c, r) == [c EXCEPT !.regset = r]

\* writes a shifted byte back: to the accumulator in Implied mode, else to memory
write_back(c, v, carry_out) ==
    LET r == set_zn(set_carry(c.regset, carry_out), v)
    IN  IF curr_i(c).amode = "Imp"
        THEN with_reg(c, [r EXCEPT !.accumulator = v])
        ELSE writ_byte(with_reg(c, r), op_address(c), v)

\* add with carry, binary mode
op_adc(c, m) ==
    LET a == c.regset.accumulator
        sum == a + m + (IF carry(c.regset) THEN 1 ELSE 0)
        res == sum % 256
        v == AndB(AndB(XorB(a, res), XorB(m, res)), 128) # 0
    IN  with_reg(c, set_zn(set_overflowed(set_carry([c.regset EXCEPT !.accumulator = res],
                                                    sum > 255), v), res))

\* compare: a subtraction that only sets flags
op_compare(c, reg) ==
    LET m == op_value(c)
    IN  with_reg(c, set_zn(set_carry(c.regset, reg >= m), (reg - m + 256) % 256))

\* a branch: one more cycle when taken, another when the target is on another page
op_branch(c, taken) ==
    IF ~taken THEN c
    ELSE LET target == op_address(c)
             extra == IF hi_byte(target) # hi_byte(c.regset.prog_counter) THEN 2 ELSE 1
         IN  [c EXCEPT !.regset.prog_counter = target, !.time.residual = @ + extra]

\* software interrupt: as interrupt entry, with the break flag set in the pushed byte
op_brk(c) ==
    LET c1 == stk_doublepush(inc_pc(c), inc_pc(c).regset.prog_counter)
        pushed == set_unused(set_brk(c1.regset, TRUE), TRUE).status
        c2 == stk_push(c1, pushed)
        r == set_irq_disabled(set_brk(c2.regset, FALSE), TRUE)
    IN  with_reg(c2, [r EXCEPT !.prog_counter = read_word(c2, BRK_VECTOR)])

op_rti(c) ==
    LET status == stk_pop_byte(c)
        c1 == stk_pop(c)
        lo == stk_pop_byte(c1)
        c2 == stk_pop(c1)
        hi == stk_pop_byte(c2)
        c3 == stk_pop(c2)
    IN  with_reg(c3, [c3.regset EXCEPT !.status = status,
                                       !.prog_counter = from_le_bytes(lo, hi)])

op_rts(c) ==
    LET lo == stk_pop_byte(c)
        c1 == stk_pop(c)
        hi == stk_pop_byte(c1)
        c2 == stk_pop(c1)
    IN  [c2 EXCEPT !.regset.prog_counter = (from_le_bytes(lo, hi) + 1) % 65536]

op_jsr(c) ==
    LET c1 == stk_doublepush(c, (c.regset.prog_counter + 65535) % 65536)
    IN  [c1 EXCEPT !.regset.prog_counter = op_address(c)]

\* the operation function `fun` applied to the Cpu
op_fun(c) ==
    LET f == curr_i(c).fun
        r == c.regset
        m == op_value(c)
        a == r.accumulator
        load(field) == with_reg(c, set_zn([r EXCEPT ![field] = m], m))
        move(field, v) == with_reg(c, set_zn([r EXCEPT ![field] = v], v))
        logic(v) == with_reg(c, set_zn([r EXCEPT !.accumulator = v], v))
        store(v) == writ_byte(c, op_address(c), v)
        memory(v) == writ_byte(with_reg(c, set_zn(r, v)), op_address(c), v)
        cbit == IF carry(r) THEN 1 ELSE 0
    IN  CASE f = "lda" -> load("accumulator")
          [] f = "ldx" -> load("x_index")
          [] f = "ldy" -> load("y_index")
          [] f = "sta" -> store(a)
          [] f = "stx" -> store(r.x_index)
          [] f = "sty" -> store(r.y_index)
          [] f = "tax" -> move("x_index", a)
          [] f = "tay" -> move("y_index", a)
          [] f = "txa" -> move("accumulator", r.x_index)
          [] f = "tya" -> move("accumulator", r.y_index)
          [] f = "tsx" -> move("x_index", r.stk_ptr)
          [] f = "txs" -> with_reg(c, [r EXCEPT !.stk_ptr = r.x_index])
          [] f = "inx" -> move("x_index", (r.x_index + 1) % 256)
          [] f = "iny" -> move("y_index", (r.y_index + 1) % 256)
          [] f = "dex" -> move("x_index", (r.x_index + 255) % 256)
          [] f = "dey" -> move("y_index", (r.y_index + 255) % 256)
          [] f = "inc" -> memory((m + 1) % 256)
          [] f = "dec" -> memory((m + 255) % 256)
          [] f = "and" -> logic(AndB(a, m))
          [] f = "ora" -> logic(OrB(a, m))
          [] f = "eor" -> logic(XorB(a, m))
          [] f = "bit" -> with_reg(c, set_negative(set_overflowed(set_zero(r, AndB(a, m) = 0),
                                                                  bit(m, 6)), bit(m, 7)))
          [] f = "adc" -> op_adc(c, m)
          [] f = "sbc" -> op_adc(c, XorB(m, 255))
          [] f = "cmp" -> op_compare(c, a)
          [] f = "cpx" -> op_compare(c, r.x_index)
          [] f = "cpy" -> op_compare(c, r.y_index)
          [] f = "asl" -> write_back(c, (m * 2) % 256, m >= 128)
          [] f = "lsr" -> write_back(c, m \div 2, m % 2 = 1)
          [] f = "rol" -> write_back(c, (m * 2 + cbit) % 256, m >= 128)
          [] f = "ror" -> write_back(c, (m \div 2) + 128 * cbit, m % 2 = 1)
          [] f = "jmp" -> [c EXCEPT !.regset.prog_counter = op_address(c)]
          [] f = "jsr" -> op_jsr(c)
          [] f = "rts" -> op_rts(c)
          [] f = "rti" -> op_rti(c)
          [] f = "brk" -> op_brk(c)
          [] f = "bcc" -> op_branch(c, ~carry(r))
          [] f = "bcs" -> op_branch(c, carry(r))
          [] f = "bne" -> op_branch(c, ~zero(r))
          [] f = "beq" -> op_branch(c, zero(r))
          [] f = "bpl" -> op_branch(c, ~negative(r))
          [] f = "bmi" -> op_branch(c, negative(r))
          [] f = "bvc" -> op_branch(c, ~overflowed(r))
          [] f = "bvs" -> op_branch(c, overflowed(r))
          [] f = "clc" -> with_reg(c, set_carry(r, FALSE))
          [] f = "sec" -> with_reg(c, set_carry(r, TRUE))
          [] f = "cli" -> with_reg(c, set_irq_disabled(r, FALSE))
          [] f = "sei" -> with_reg(c, set_irq_disabled(r, TRUE))
          [] f = "clv" -> with_reg(c, set_overflowed(r, FALSE))
          [] f = "cld" -> with_reg(c, set_decimal_mode(r, FALSE))
          [] f = "sed" -> with_reg(c, set_decimal_mode(r, TRUE))
          [] f = "pha" -> stk_push(c, a)
          [] f = "php" -> stk_push(c, set_unused(set_brk(r, TRUE), TRUE).status)
          [] f = "pla" -> LET v == stk_pop_byte(c)
                          IN  with_reg(stk_pop(c), set_zn([stk_pop(c).regset
                                                            EXCEPT !.accumulator = v], v))
          [] f = "plp" -> LET v == stk_pop_byte(c)
                          IN  with_reg(stk_pop(c), set_unused([stk_pop(c).regset
                                                               EXCEPT !.status = v], TRUE))
          [] f = "nop" -> c

\* the operation, and the cycle a read operation pays for a crossed page
execute(c) ==
    LET c1 == op_fun(c)
    IN  IF curr_i(c).fun \in ReadOps /\ page_crossed(c)
        THEN [c1 EXCEPT !.time.residual = @ + 1]
        ELSE c1

---------------------------------------------------------------------------
(* The execution state machine *)

\* mutant: the tick is not counted in `elapsed`
Timings_next_no_elapsed(c) ==
    LET c1 == [c EXCEPT !.ticks = @ + 1]
    IN  IF c.time.residual = 0
        THEN IF c.overflow_checks
             THEN Panic([c1 EXCEPT !.underflow = TRUE])
             ELSE [c1 EXCEPT !.underflow = TRUE, !.time.residual = 255]
        ELSE [c1 EXCEPT !.time.residual = @ - 1]

\* Timings::next: `residual -= 1` on a residual of 0 panics with overflow checks
\* and wraps to 255 without. `elapsed` is a u64: the 2^64 cycles it takes to wrap
\* lie beyond every run of MaxCalls calls, so it is the plain count here
Timings_next(c) ==
    LET c1 == [c EXCEPT !.ticks = @ + 1]
    IN  IF c.time.residual = 0
        THEN IF c.overflow_checks
             THEN Panic([c1 EXCEPT !.underflow = TRUE])
             ELSE [c1 EXCEPT !.underflow = TRUE, !.time.residual = 255,
                             !.time.elapsed = @ + 1]
        ELSE [c1 EXCEPT !.time.residual = @ - 1, !.time.elapsed = @ + 1]

\* the residual == 0 branch of clock_cycle: fetch, decode, load the operand,
\* resolve the address, execute
fetch_and_execute(c) ==
    LET opcode == fetch_byte(c)
        c1 == [fetch(c) EXCEPT !.fetches = @ + 1]
    IN  IF is_illegal(opcode) THEN Panic(c1)
        ELSE
            LET c2 == [c1 EXCEPT !.i = Some(decode_by(opcode)),
                                 !.time.residual = decode_by(opcode).time]
                c3 == load_operand_curr_i(c2)
            IN  IF c3.panicked THEN c3
                ELSE IF addressing_fails(c3) THEN Panic(c3)
                ELSE
                    LET c4 == [c3 EXCEPT !.i = Some([c3.i[1] EXCEPT
                                                     !.amode_output = amode_fun(c3)])]
                    IN  IF execute_fails(c4) THEN Panic(c4) ELSE execute(c4)

\* mutant: a countdown tick discards the instruction in flight
clock_cycle_discards_instruction(c) ==
    LET c1 == IF c.time.residual = 0 THEN fetch_and_execute(c) ELSE [c EXCEPT !.i = None]
    IN  IF c1.panicked THEN c1 ELSE Timings_next(c1)

\* mutant: the tick does not look at residual, and never fetches
clock_cycle_no_fetch(c) == Timings_next(c)

\* Cpu::clock_cycle
clock_cycle(c) ==
    LET c1 == IF c.time.residual = 0 THEN fetch_and_execute(c) ELSE c
    IN  IF c1.panicked THEN c1 ELSE Timings_next(c1)

\* Cpu::full_instruction: `while self.time.residual != 0 { self.clock_cycle(); }`
RECURSIVE full_instruction_loop(_)
full_instruction_loop(c) ==
    IF c.panicked \/ c.time.residual = 0 THEN c
    ELSE full_instruction_loop(clock_cycle(c))

\* mutant: a single tick instead of the loop
full_instruction_single_tick(c) == clock_cycle(c)

full_instruction(c) == full_instruction_loop(clock_cycle(c))

---------------------------------------------------------------------------
(* Interrupts, reset, connection, program loading *)

InterruptKind == {"Nmi", "Irq"}

\* mutant: the two vectors are swapped
int_vector_swapped(int) == IF int = "Nmi" THEN 65534 ELSE 65530

\* the match in Cpu::inthandle: (next_address, time)
int_vector(int) == IF int = "Nmi" THEN 65530 ELSE 65534

\* mutant: the two interrupt costs are swapped
int_time_swapped(int) == IF int = "Nmi" THEN 7 ELSE 8

int_time(int) == IF int = "Nmi" THEN 8 ELSE 7

\* mutant: the interrupt-disable flag is not consulted
int_masked_never(c, int) == FALSE

\* mutant: the interrupt-disable flag masks every kind of interrupt
int_masked_any_kind(c, int) == irq_disabled(c.regset)

\* the guard of Cpu::inthandle: `int == Irq && self.regset().irq_disabled()`
int_masked(c, int) == int = "Irq" /\ irq_disabled(c.regset)

\* Cpu::inthandle
inthandle(c, int) ==
    IF int_masked(c, int) THEN [c EXCEPT !.ret = Some(FALSE)]
    ELSE
        LET prog_counter == c.regset.prog_counter
            c1 == stk_doublepush(c, prog_counter)
            c2 == with_reg(c1, set_irq_disabled(set_unused(set_brk(c1.regset, FALSE),
                                                           TRUE), TRUE))
            status == c2.regset.status
            c3 == stk_push(c2, status)
            new_pc == read_word(c3, int_vector(int))
        IN  [c3 EXCEPT !.regset.prog_counter = new_pc,
                       !.time.residual = int_time(int),
                       !.ret = Some(TRUE)]

\* mutant: the reset charges no cycles
reset_uncharged(c) ==
    LET r0 == [RegisterSet_new EXCEPT !.status = 0, !.prog_counter = 32768]
    IN  [c EXCEPT !.regset = set_unused(r0, TRUE),
                  !.time = [residual |-> 0, elapsed |-> 0]]

\* Cpu::reset
reset(c) ==
    LET r0 == [RegisterSet_new EXCEPT !.status = 0, !.prog_counter = 32768]
    IN  [c EXCEPT !.regset = set_unused(r0, TRUE),
                  !.time = [residual |-> 8, elapsed |-> 0]]

\* mutant: the last attachment wins
connect_to_last_wins(c, conn) == [c EXCEPT !.bus_conn = Some(conn)]

\* Cpu::connect_to
connect_to(c, conn) ==
    IF c.bus_conn = None THEN [c EXCEPT !.bus_conn = Some(conn)] ELSE c

\* the getset setters of InterruptHandling: set_pending_nmi, set_pending_irq
set_pending(c, int, val) ==
    IF int = "Nmi" THEN [c EXCEPT !.inter.pending_nmi = val]
    ELSE [c EXCEPT !.inter.pending_irq = val]

\* the loop of Cpu::load_program: `for address in begin..end`, k bytes stored so far
RECURSIVE load_loop(_, _, _, _, _)
load_loop(c, program, begin, end, k) ==
    IF begin + k >= end THEN c
    ELSE IF k + 1 > Len(program) THEN Panic(c)
    ELSE load_loop(writ_byte(c, begin + k, program[k + 1]), program, begin, end, k + 1)

\* mutant: the program counter is saved after it is set
load_program_saves_late(c, program, begin, limit, start_it) ==
    IF c.bus_conn = None THEN [c EXCEPT !.ret = <<"Err", "BusInterfaceMissing">>]
    ELSE
        LET c1 == load_loop(c, program, begin, (begin + (limit % 65536)) % 65536, 0)
            c2 == [c1 EXCEPT !.regset.prog_counter = IF start_it THEN begin ELSE @]
        IN  [c2 EXCEPT !.ret = <<"Ok", c2.regset.prog_counter>>]

\* Cpu::load_program: `begin + limit as u16` overflows past 0xFFFF
load_program(c, program, begin, limit, start_it) ==
    IF c.bus_conn = None THEN [c EXCEPT !.ret = <<"Err", "BusInterfaceMissing">>]
    ELSE IF c.overflow_checks /\ begin + (limit % 65536) > 65535 THEN Panic(c)
    ELSE
        LET end == (begin + (limit % 65536)) % 65536
            c1 == load_loop(c, program, begin, end, 0)
            saved_pc == c1.regset.prog_counter
        IN  IF c1.panicked THEN c1
            ELSE [c1 EXCEPT !.regset.prog_counter = IF start_it THEN begin ELSE @,
                            !.ret = <<"Ok", saved_pc>>]

---------------------------------------------------------------------------
(* The PPU dot counter and frame flag (src/src/ppu/ppu_2c02.rs)            *)

HORIZONTAL_LIMIT == 340

VERTICAL_LIMIT == 260

\* PpuDot::new
PpuDot_new == [scanline |-> 261, cycles |-> 0]

\* PpuDot::update: the dot after the clock, and whether the frame has ended
PpuDot_update(dot) ==
    LET d1 == [dot EXCEPT !.cycles = @ + 1]
    IN  IF d1.cycles > HORIZONTAL_LIMIT
        THEN LET d2 == [d1 EXCEPT !.cycles = 0, !.scanline = @ + 1]
             IN  IF d2.scanline > VERTICAL_LIMIT
                 THEN [dot |-> [d2 EXCEPT !.scanline = 0 - 1], ret |-> TRUE]
                 ELSE [dot |-> d2, ret |-> FALSE]
        ELSE [dot |-> d1, ret |-> FALSE]

\* PpuDot::reset: reset_cycles and reset_scanline
PpuDot_reset(dot) == [dot EXCEPT !.cycles = 0, !.scanline = 0 - 1]

\* Ppu::new, as far as the dot and the frame flag go
Ppu_new == [dot |-> PpuDot_new, frame_end |-> FALSE]

\* Ppu::clock
Ppu_clock(p) ==
    LET u == PpuDot_update(p.dot)
    IN  [p EXCEPT !.dot = u.dot, !.frame_end = u.ret]

\* Ppu::reset: PpuRegSet::reset resets the dot; the frame flag stays
Ppu_reset(p) == [p EXCEPT !.dot = PpuDot_reset(@)]

\* Ppu::frame_reset
Ppu_frame_reset(p) == [p EXCEPT !.frame_end = FALSE]

\* the driver of the PPU before its first call
PpuIdle == [pc |-> "idle", last |-> "new", since |-> 0, clean |-> TRUE]

---------------------------------------------------------------------------
(* The specification: a driver calling the Cpu's public methods *)

\* the Cpu the variables hold, as a call finds it
Self ==
    [regset |-> regset, time |-> time, inter |-> inter, bus_conn |-> bus_conn,
     i |-> i, mem |-> mem, panicked |-> panicked, overflow_checks |-> overflow_checks,
     fail |-> "none", ret |-> None, fetches |-> 0, ticks |-> 0, underflow |-> FALSE]

\* the Cpu a call leaves behind becomes the state
Holds(c) ==
    /\ regset = c.regset
    /\ time = c.time
    /\ inter = c.inter
    /\ bus_conn = c.bus_conn
    /\ i = c.i
    /\ mem = c.mem
    /\ panicked = c.panicked
    /\ overflow_checks = c.overflow_checks

Returns(op, arg, c) ==
    /\ regset' = c.regset
    /\ time' = c.time
    /\ inter' = c.inter
    /\ bus_conn' = c.bus_conn
    /\ i' = c.i
    /\ mem' = c.mem
    /\ panicked' = c.panicked
    /\ overflow_checks' = c.overflow_checks
    /\ lastcall' = [op |-> op, arg |-> arg, ret |-> c.ret, fetches |-> c.fetches,
                    ticks |-> c.ticks, underflow |-> c.underflow,
                    pre |-> [regset |-> regset, time |-> time]]
    /\ calls' = calls + 1
    /\ log' = IF logging
              THEN Append(log, [op |-> op, arg |-> arg, ret |-> c.ret,
                                fetches |-> c.fetches, pre |-> regset, post |-> c.regset])
              ELSE log
    /\ UNCHANGED <<logging, budget, ppu, ppu_run>>

\* lastcall before any call: the registers and timings are those of the constructor
NoCall(c) ==
    [op |-> "new", arg |-> <<>>, ret |-> None, fetches |-> 0, ticks |-> 0,
     underflow |-> FALSE, pre |-> [regset |-> c.regset, time |-> c.time]]

CanCall == ~panicked /\ calls < budget

\* the programs the driver loads: <<program, begin, limit>>
Loads ==
    { <<(<<169, 5, 88, 2>>), 32768, 4>>,       \* lda #5 ; cli ; (illegal 0x02)
      <<(<<16, 126, 234>>), 32768, 3>>,        \* bpl +126 ; nop
      <<(<<0, 128, 0, 0, 2>>), 65530, 5>> }    \* NMI vector 0x8000, IRQ vector 0x0002

\* the program counters given to new_custompc
CustomPcs == {32768, 65535}

Init ==
    /\ overflow_checks \in BOOLEAN
    /\ \E c \in {Cpu_new(overflow_checks), Cpu_new_connected(overflow_checks, Some(1))}
                \cup {Cpu_new_custompc(overflow_checks, pc) : pc \in CustomPcs} :
          Holds(c) /\ lastcall = NoCall(c)
    /\ calls = 0
    /\ log = <<>>
    /\ logging = FALSE
    /\ budget = MaxCalls
    /\ ppu = Ppu_new
    /\ ppu_run = PpuIdle

ClockCycle == CanCall /\ Returns("clock_cycle", <<>>, clock_cycle(Self))

FullInstruction == CanCall /\ Returns("full_instruction", <<>>, full_instruction(Self))

Inthandle == CanCall /\ \E int \in InterruptKind :
                 Returns("inthandle", <<int>>, inthandle(Self, int))

Reset == CanCall /\ Returns("reset", <<>>, reset(Self))

ConnectTo == CanCall /\ \E conn \in BusIds :
                 Returns("connect_to", <<conn>>, connect_to(Self, conn))

SetPending == CanCall /\ \E int \in InterruptKind :
                  /\ ~(IF int = "Nmi" THEN inter.pending_nmi ELSE inter.pending_irq)
                  /\ Returns("set_pending", <<int>>, set_pending(Self, int, TRUE))

LoadProgram == CanCall /\ \E ld \in Loads, start_it \in BOOLEAN :
                   Returns("load_program", <<ld[1], ld[2], ld[3], start_it>>,
                           load_program(Self, ld[1], ld[2], ld[3], start_it))

Next ==
    \/ ClockCycle
    \/ FullInstruction
    \/ Inthandle
    \/ Reset
    \/ ConnectTo
    \/ SetPending
    \/ LoadProgram

Spec == Init /\ [][Next]_vars

---------------------------------------------------------------------------
(* A second specification: interrupt entry from any registers              *)
(*                                                                         *)
(* The registers and timings have public setters (regset_mut, time_mut),   *)
(* MainBus.mem is public and the operations write both: SpecInt starts     *)
(* from registers, residual cycles and vectors drawn from the sets below   *)
(* and lets the driver raise interrupts.                                   *)

IntPcs == {0, 4863, 65535}

IntStkPtrs == {0, 1, 2, 253, 255}

IntStatuses == {0, 4, 16, 36, 219, 255}

IntResiduals == {0, 5}

\* a bus whose vectors are set: NMI -> 0x1234, IRQ/BRK -> 0x5678
VectorsSet == (65530 :> 52) @@ (65531 :> 18) @@ (65534 :> 120) @@ (65535 :> 86)

InitInt ==
    /\ overflow_checks \in BOOLEAN
    /\ \E pc \in IntPcs, s \in IntStkPtrs, p \in IntStatuses, res \in IntResiduals,
          bus \in {None, Some(1)}, m \in {MainBus_new, VectorsSet} :
          LET c0 == Cpu_new_connected(overflow_checks, bus)
              c == [c0 EXCEPT !.regset.prog_counter = pc, !.regset.stk_ptr = s,
                              !.regset.status = p, !.time.residual = res,
                              !.mem[1] = m]
          IN  /\ (bus = None => m = MainBus_new)
              /\ Holds(c)
              /\ lastcall = NoCall(c)
    /\ calls = 0
    /\ log = <<>>
    /\ logging = FALSE
    /\ budget = MaxCalls
    /\ ppu = Ppu_new
    /\ ppu_run = PpuIdle

NextInt == Inthandle

SpecInt == InitInt /\ [][NextInt]_vars

---------------------------------------------------------------------------
(* Claims C1..C10 *)

\* the step is a call of `op` that returned
Called(op) == lastcall'.op = op /\ ~panicked'

\* the step is an accepted inthandle()
Accepted == Called("inthandle") /\ lastcall'.ret = Some(TRUE)

\* the memory behind the Cpu's bus after the step
BusMem == mem'[bus_conn[1]]

\* every opcode the decode table defines charges at least one cycle
EveryOpcodeCharged == \A opcode \in Byte : ~is_illegal(opcode) => DecodeTable[opcode][3] >= 1

\* C1: a call of full_instruction() that returns has fetched and executed exactly
\* one opcode and leaves residual == 0, from whatever state it was called in
\* (also one with residual > 0, as after reset() or an accepted inthandle()).
C1_FullInstructionRetiresOneOpcode ==
    lastcall.op = "full_instruction" /\ ~panicked
        => lastcall.fetches = 1 /\ time.residual = 0

\* C2: the residual counter stays within 0..255 and never underflows:
\* Timings::next never meets a residual of 0 (no opcode of the decode table
\* charges 0 cycles), and every clock_cycle() that returns has applied
\* Timings::next exactly once: a countdown tick leaves residual one lower, a
\* fetch tick leaves it one below the cycles the instruction was charged.
C2_ResidualNeverUnderflows ==
    /\ time.residual \in 0..255
    /\ ~lastcall.underflow
    /\ (lastcall.op = "clock_cycle" /\ ~panicked => lastcall.ticks = 1)
    /\ (lastcall.op = "clock_cycle" /\ ~panicked /\ lastcall.pre.time.residual > 0
            => time.residual = lastcall.pre.time.residual - 1)
    /\ (lastcall.op = "clock_cycle" /\ ~panicked /\ lastcall.pre.time.residual = 0
            => lastcall.fetches = 1 /\ time.residual >= i[1].time - 1)
    /\ EveryOpcodeCharged

\* a tick that fetched a two-cycle opcode, and a countdown tick that reached 0
C2_Witness ==
    /\ lastcall.op = "clock_cycle"
    /\ ~panicked
    /\ lastcall.fetches = 0
    /\ lastcall.pre.time.residual = 1
    /\ time.residual = 0
    /\ i # None

\* C3 as stated: no call ever decreases the elapsed cycle counter.
C3_ElapsedNeverDecreases == [][time'.elapsed >= time.elapsed]_vars

\* C3 as amended: every call but reset() leaves the elapsed cycle counter at
\* least where it was, reset() sets it to 0, and each clock_cycle() that
\* returns increases it by exactly 1.
C3_ElapsedMonotonicBetweenResets ==
    [][/\ (lastcall'.op # "reset" => time'.elapsed >= time.elapsed)
       /\ (lastcall'.op = "reset" => time'.elapsed = 0)
       /\ (Called("clock_cycle") => time'.elapsed = time.elapsed + 1)]_vars

\* a reset() that found cycles elapsed
C3_Witness ==
    /\ lastcall.op = "reset"
    /\ lastcall.pre.time.elapsed > 1
    /\ time.elapsed = 0

\* C4: with the interrupt-disable flag set, inthandle(Irq) returns false and
\* leaves the registers, the timings, memory, the latches, the connection and
\* the current instruction as they were.
C4_MaskedIrqChangesNothing ==
    [][lastcall'.op = "inthandle" /\ lastcall'.arg = <<"Irq">> /\ irq_disabled(regset)
          => /\ lastcall'.ret = Some(FALSE)
             /\ UNCHANGED <<regset, time, inter, bus_conn, i, mem, panicked>>]_vars

\* a masked IRQ, raised with a bus attached and cycles still to count down
C4_Witness ==
    /\ lastcall.op = "inthandle"
    /\ lastcall.arg = <<"Irq">>
    /\ irq_disabled(lastcall.pre.regset)
    /\ lastcall.ret = Some(FALSE)
    /\ bus_conn # None
    /\ time.residual > 0

\* C5: inthandle(kind) returns true exactly when kind is NMI or the
\* interrupt-disable flag is clear.
C5_AcceptedIffNmiOrEnabled ==
    [][lastcall'.op = "inthandle"
          => /\ lastcall'.ret \in {Some(TRUE), Some(FALSE)}
             /\ (lastcall'.ret = Some(TRUE)
                    <=> (lastcall'.arg = <<"Nmi">> \/ ~irq_disabled(regset)))]_vars

\* an NMI accepted with the interrupt-disable flag set
C5_Witness ==
    /\ lastcall.op = "inthandle"
    /\ lastcall.arg = <<"Nmi">>
    /\ irq_disabled(lastcall.pre.regset)
    /\ lastcall.ret = Some(TRUE)

\* C6: an accepted inthandle() entered with program counter p and stack
\* pointer s, bus attached, leaves the high byte of p at 0x0100 + s, the low
\* byte at 0x0100 + (s - 1 mod 256), the status byte with break clear and
\* unused set at 0x0100 + (s - 2 mod 256), and the stack pointer at s - 3 mod 256.
C6_InterruptStackFrame ==
    [][Accepted /\ bus_conn # None
          => LET p == regset.prog_counter
                 s == regset.stk_ptr
                 pushed == MainBus_read(BusMem, 256 + ((s + 254) % 256))
             IN  /\ MainBus_read(BusMem, 256 + s) = p \div 256
                 /\ MainBus_read(BusMem, 256 + ((s + 255) % 256)) = p % 256
                 /\ Bit(pushed, 4) = 0
                 /\ Bit(pushed, 5) = 1
                 /\ pushed = regset'.status
                 /\ regset'.stk_ptr = (s + 253) % 256]_vars

\* an interrupt accepted with the stack pointer at 1, so that the frame wraps
C6_Witness ==
    /\ lastcall.op = "inthandle"
    /\ lastcall.ret = Some(TRUE)
    /\ bus_conn # None
    /\ lastcall.pre.regset.stk_ptr = 1
    /\ lastcall.pre.regset.prog_counter = 4863
    /\ regset.stk_ptr = 254

\* C7: the status byte an accepted inthandle() pushes carries the
\* interrupt-disable bit as it was before the interrupt; the flag is set in
\* the live status register afterwards.
C7_PushedStatusKeepsInterruptDisable ==
    [][Accepted /\ bus_conn # None
          => LET pushed == MainBus_read(BusMem, 256 + ((regset.stk_ptr + 254) % 256))
             IN  /\ Bit(pushed, 2) = Bit(regset.status, 2)
                 /\ irq_disabled(regset')]_vars

\* C8: after an accepted inthandle(kind) the program counter is the
\* little-endian word at 0xFFFA/0xFFFB (NMI) or 0xFFFE/0xFFFF (IRQ), the
\* interrupt-disable flag is set, and residual is 8 (NMI) or 7 (IRQ).
C8_VectorAndCost ==
    [][Accepted
          => LET nmi == lastcall'.arg = <<"Nmi">>
                 lo == IF nmi THEN 65530 ELSE 65534
                 word == IF bus_conn = None THEN 0
                         ELSE MainBus_read(BusMem, lo) + 256 * MainBus_read(BusMem, lo + 1)
             IN  /\ regset'.prog_counter = word
                 /\ irq_disabled(regset')
                 /\ time'.residual = (IF nmi THEN 8 ELSE 7)]_vars

\* an IRQ accepted on a bus whose IRQ vector holds 0x5678
C8_Witness ==
    /\ lastcall.op = "inthandle"
    /\ lastcall.arg = <<"Irq">>
    /\ lastcall.ret = Some(TRUE)
    /\ regset.prog_counter = 22136
    /\ time.residual = 7

C10_InterruptEntryOnlyAtBoundary ==
    [][lastcall'.op = "inthandle" /\ time.residual > 0
          => /\ regset'.prog_counter = regset.prog_counter
             /\ regset'.stk_ptr = regset.stk_ptr
             /\ time'.residual = time.residual
             /\ mem' = mem]_vars

---------------------------------------------------------------------------
(* A third specification: interrupt entry and return                       *)
(*                                                                         *)
(* Both vectors lead to a handler that is the single opcode 0x40 (rti).    *)
(* The driver raises interrupts and runs full instructions from registers  *)
(* drawn from the sets below.                                              *)

\* the driver of SpecRti makes at most this many calls
MaxRtiCalls == 3

RtiPcs == {0, 4863, 65535}

RtiStkPtrs == {0, 1, 2, 253, 255}

RtiStatuses == {0, 36, 195, 251}

\* NMI -> 0x1234, IRQ/BRK -> 0x5678, and an rti at both
RtiHandlers == VectorsSet @@ (4660 :> 64) @@ (22136 :> 64)

InitRti ==
    /\ overflow_checks \in BOOLEAN
    /\ \E pc \in RtiPcs, s \in RtiStkPtrs, p \in RtiStatuses :
          LET c0 == Cpu_new_connected(overflow_checks, Some(1))
              c == [c0 EXCEPT !.regset.prog_counter = pc, !.regset.stk_ptr = s,
                              !.regset.status = p, !.mem[1] = RtiHandlers]
          IN  Holds(c) /\ lastcall = NoCall(c)
    /\ calls = 0
    /\ log = <<>>
    /\ logging = TRUE
    /\ budget = MaxRtiCalls
    /\ ppu = Ppu_new
    /\ ppu_run = PpuIdle

NextRti ==
    \/ Inthandle
    \/ FullInstruction

SpecRti == InitRti /\ [][NextRti]_vars

---------------------------------------------------------------------------
(* A fourth specification: the stack primitives                            *)
(*                                                                         *)
(* stk_push, stk_doublepush and stk_pop are pub(crate): code of the crate  *)
(* (its tests, the operations) calls them directly. The driver of          *)
(* SpecStack calls them and raises interrupts, from stack pointers drawn   *)
(* from the set below and a memory whose stack page and its neighbours     *)
(* hold distinct bytes.                                                    *)

\* the driver of SpecStack makes at most this many calls
MaxStackCalls == 3

StackPtrs == {0, 1, 253, 255}

StackStatuses == {32, 36}

StackBytes == {0, 90}

StackWords == {4660, 65280}

\* the vectors, the two ends of page 1, and the bytes next to the page
StackImage ==
    VectorsSet @@ (255 :> 102) @@ (256 :> 17) @@ (257 :> 34) @@ (509 :> 68)
               @@ (510 :> 51) @@ (511 :> 119) @@ (512 :> 85)

\* Cpu::stk_pop as a call: the Cpu after it, with the byte it returned
stk_pop_call(c) == [stk_pop(c) EXCEPT !.ret = Some(stk_pop_byte(c))]

InitStack ==
    /\ overflow_checks \in BOOLEAN
    /\ \E s \in StackPtrs, p \in StackStatuses, bus \in {None, Some(1)} :
          LET c0 == Cpu_new_connected(overflow_checks, bus)
              c == [c0 EXCEPT !.regset.stk_ptr = s, !.regset.status = p,
                              !.mem[1] = StackImage]
          IN  Holds(c) /\ lastcall = NoCall(c)
    /\ calls = 0
    /\ log = <<>>
    /\ logging = TRUE
    /\ budget = MaxStackCalls
    /\ ppu = Ppu_new
    /\ ppu_run = PpuIdle

StkPush == CanCall /\ \E data \in StackBytes :
               Returns("stk_push", <<data>>, stk_push(Self, data))

StkDoublePush == CanCall /\ \E data \in StackWords :
                     Returns("stk_doublepush", <<data>>, stk_doublepush(Self, data))

StkPop == CanCall /\ Returns("stk_pop", <<>>, stk_pop_call(Self))

NextStack ==
    \/ StkPush
    \/ StkDoublePush
    \/ StkPop
    \/ Inthandle

SpecStack == InitStack /\ [][NextStack]_vars

---------------------------------------------------------------------------
(* A fifth specification: every opcode fetched                             *)
(*                                                                         *)
(* The memory holds one opcode, any of the 256, at 0x8000, where the       *)
(* program counter stands; the driver ticks the Cpu.                       *)

\* the driver of SpecDecode makes at most this many calls
MaxDecodeCalls == 2

InitDecode ==
    /\ overflow_checks \in BOOLEAN
    /\ \E opcode \in Byte :
          LET c0 == Cpu_new_connected(overflow_checks, Some(1))
              c == [c0 EXCEPT !.regset.prog_counter = 32768,
                              !.mem[1] = MainBus_write(MainBus_new, 32768, opcode)]
          IN  Holds(c) /\ lastcall = NoCall(c)
    /\ calls = 0
    /\ log = <<>>
    /\ logging = TRUE
    /\ budget = MaxDecodeCalls
    /\ ppu = Ppu_new
    /\ ppu_run = PpuIdle

NextDecode ==
    \/ ClockCycle
    \/ FullInstruction

SpecDecode == InitDecode /\ [][NextDecode]_vars

---------------------------------------------------------------------------
(* A sixth specification: the instruction's functions report an error      *)
(*                                                                         *)
(* clock_cycle calls the addressing-mode function and the operation        *)
(* function through the decoded instruction and handles the Err either may *)
(* return. The driver of SpecFail loads a program and ticks the Cpu; a     *)
(* tick may be one in which one of the two functions returns Err.          *)

\* the driver of SpecFail makes at most this many calls
MaxFailCalls == 3

\* lda #5 ; sta $10 ; nop ; jmp $9000 ; inx ; adc $1234,x
FailPrograms ==
    { <<169, 5>>, <<133, 16>>, <<234>>, <<76, 0, 144>>, <<232>>, <<125, 52, 18>> }

FailKinds == {"addressing", "executing"}

InitFail ==
    /\ overflow_checks \in BOOLEAN
    /\ \E program \in FailPrograms :
          LET c0 == load_program(Cpu_new_connected(overflow_checks, Some(1)),
                                 program, 32768, Len(program), TRUE)
              c == [c0 EXCEPT !.ret = None]
          IN  Holds(c) /\ lastcall = NoCall(c)
    /\ calls = 0
    /\ log = <<>>
    /\ logging = TRUE
    /\ budget = MaxFailCalls
    /\ ppu = Ppu_new
    /\ ppu_run = PpuIdle

\* a tick in which the addressing-mode function or the operation function
\* returns Err
ClockCycleFails == CanCall /\ \E kind \in FailKinds :
                       Returns("clock_cycle", <<kind>>,
                               clock_cycle([Self EXCEPT !.fail = kind]))

NextFail ==
    \/ ClockCycle
    \/ ClockCycleFails

SpecFail == InitFail /\ [][NextFail]_vars

---------------------------------------------------------------------------
(* A seventh specification: lda #v at 0x8000                               *)
(*                                                                         *)
(* The driver loads the two bytes A9 v at 0x8000 with load_program, which  *)
(* also sets the program counter there, and runs the Cpu, from an          *)
(* accumulator and a status drawn from the sets below.                     *)

\* the driver of SpecLda makes at most this many calls
MaxLdaCalls == 2

LdaValues == {0, 5, 127, 128, 255}

LdaAccumulators == {0, 119}

LdaStatuses == {36, 166}

InitLda ==
    /\ overflow_checks \in BOOLEAN
    /\ \E v \in LdaValues, a \in LdaAccumulators, p \in LdaStatuses :
          LET c0 == load_program(Cpu_new_connected(overflow_checks, Some(1)),
                                 <<169, v>>, 32768, 2, TRUE)
              c == [c0 EXCEPT !.ret = None, !.regset.accumulator = a,
                              !.regset.status = p]
          IN  Holds(c) /\ lastcall = NoCall(c)
    /\ calls = 0
    /\ log = <<>>
    /\ logging = TRUE
    /\ budget = MaxLdaCalls
    /\ ppu = Ppu_new
    /\ ppu_run = PpuIdle

NextLda ==
    \/ FullInstruction
    \/ ClockCycle

SpecLda == InitLda /\ [][NextLda]_vars

---------------------------------------------------------------------------
(* An eighth specification: jmp (P) at 0x8000                              *)
(*                                                                         *)
(* The driver loads the three bytes 6C lo(P) hi(P) at 0x8000 with          *)
(* load_program and runs the Cpu. The memory holds a byte at P, another at *)
(* P + 1 and a third at the first address of P's page.                     *)

\* the driver of SpecJmp makes at most this many calls
MaxJmpCalls == 2

JmpPointers == {12543, 12368, 255, 12288}

JmpTargetLows == {128, 1}

JmpSamePageHighs == {64, 65}

JmpNextHighs == {80, 81}

\* the memory after the three data bytes are stored, the last store winning
JmpImage(m, ptr, lo, same, next) ==
    MainBus_write(MainBus_write(MainBus_write(m, ptr - (ptr % 256), same),
                                ptr + 1, next),
                  ptr, lo)

InitJmp ==
    /\ overflow_checks \in BOOLEAN
    /\ \E ptr \in JmpPointers, lo \in JmpTargetLows, same \in JmpSamePageHighs,
          next \in JmpNextHighs :
          LET c0 == load_program(Cpu_new_connected(overflow_checks, Some(1)),
                                 <<108, lo_byte(ptr), hi_byte(ptr)>>, 32768, 3, TRUE)
              c == [c0 EXCEPT !.ret = None,
                              !.mem[1] = JmpImage(@, ptr, lo, same, next)]
          IN  Holds(c) /\ lastcall = NoCall(c)
    /\ calls = 0
    /\ log = <<>>
    /\ logging = TRUE
    /\ budget = MaxJmpCalls
    /\ ppu = Ppu_new
    /\ ppu_run = PpuIdle

NextJmp ==
    \/ FullInstruction
    \/ ClockCycle

SpecJmp == InitJmp /\ [][NextJmp]_vars

---------------------------------------------------------------------------
(* Claims C11..C20 *)

\* log[k] is an accepted inthandle(), every call after it but the last only
\* counted cycles down, and the last call fetched and executed an rti
RtiReturnsFrom(k) ==
    /\ k < Len(log)
    /\ log[k].op = "inthandle" /\ log[k].ret = Some(TRUE)
    /\ \A j \in (k + 1)..(Len(log) - 1) : log[j].fetches = 0 /\ log[j].op # "inthandle"
    /\ log[Len(log)].fetches = 1
    /\ bus_conn # None
    /\ MainBus_read(mem[bus_conn[1]], log[k].post.prog_counter) = 64

\* C11: when an interrupt was accepted with program counter p and stack pointer
\* s and the next instruction executed is the handler's rti (0x40), the call
\* returns with the program counter p again, the stack pointer s again, and the
\* status register equal to the status byte the entry pushed (the byte at
\* 0x0100 + s - 2, wrapping within the page).
C11_InterruptRoundTrip ==
    \A k \in 1..Len(log) :
        RtiReturnsFrom(k)
            => /\ ~panicked
               /\ regset.prog_counter = log[k].pre.prog_counter
               /\ regset.stk_ptr = log[k].pre.stk_ptr
               /\ regset.status = MainBus_read(mem[bus_conn[1]],
                                     STACK_OFFSET + ((log[k].pre.stk_ptr + 254) % 256))
               /\ regset.status = log[k].post.status

\* an IRQ taken with the stack pointer at 1 (the frame wraps past 0x0100) has
\* been returned from
C11_Witness ==
    \E k \in 1..Len(log) :
        /\ RtiReturnsFrom(k)
        /\ log[k].arg = <<"Irq">>
        /\ log[k].pre.stk_ptr = 1
        /\ log[k].pre.prog_counter = 4863
        /\ regset.prog_counter = 4863
        /\ regset.stk_ptr = 1

\* the memory behind the Cpu's bus, and the bytes of a memory outside page 1
StackMem == mem[bus_conn[1]]

OutsidePage1(m) == [a \in DOMAIN m \ (256..511) |-> m[a]]

\* C12: with a bus attached, stk_pop() called right after stk_push(B) returns B
\* and leaves the stack pointer where it was before the push, for every stack
\* pointer, 0x00 (where the push wraps the pointer to 0xFF) included.
C12_StackRoundTrip ==
    \A k \in 1..(Len(log) - 1) :
        (/\ bus_conn # None
         /\ log[k].op = "stk_push"
         /\ log[k + 1].op = "stk_pop")
            => /\ log[k + 1].ret = Some(log[k].arg[1])
               /\ log[k + 1].post.stk_ptr = log[k].pre.stk_ptr

\* a byte pushed with the pointer at 0x00 has been popped, the pointer is 0x00 again
C12_Witness ==
    /\ bus_conn # None
    /\ Len(log) >= 2
    /\ log[Len(log) - 1].op = "stk_push"
    /\ log[Len(log) - 1].arg = <<90>>
    /\ log[Len(log) - 1].pre.stk_ptr = 0
    /\ log[Len(log) - 1].post.stk_ptr = 255
    /\ log[Len(log)].op = "stk_pop"
    /\ log[Len(log)].ret = Some(90)
    /\ regset.stk_ptr = 0

C14_PushWritesAtNewPointer ==
    [][(bus_conn # None /\ ~panicked')
           => /\ lastcall'.op = "stk_push"
                     => /\ regset'.stk_ptr = (regset.stk_ptr + 255) % 256
                        /\ MainBus_read(BusMem, STACK_OFFSET + regset'.stk_ptr)
                               = lastcall'.arg[1]
              /\ lastcall'.op = "stk_pop"
                     => /\ lastcall'.ret
                               = Some(MainBus_read(BusMem, STACK_OFFSET + regset.stk_ptr))
                        /\ regset'.stk_ptr = (regset.stk_ptr + 1) % 256]_vars

\* C14, amended: stk_push writes the byte at 0x0100 + the pointer it finds and
\* leaves the pointer one lower (mod 256), the rest of memory as it was;
\* stk_pop leaves the pointer one higher (mod 256) and returns the byte at
\* 0x0100 + that new pointer, memory as it was.
C14_PushWritesAtOldPointer ==
    [][(bus_conn # None /\ ~panicked')
           => /\ lastcall'.op = "stk_push"
                     => /\ regset'.stk_ptr = (regset.stk_ptr + 255) % 256
                        /\ BusMem = MainBus_write(mem[bus_conn[1]],
                                                  STACK_OFFSET + regset.stk_ptr,
                                                  lastcall'.arg[1])
              /\ lastcall'.op = "stk_pop"
                     => /\ regset'.stk_ptr = (regset.stk_ptr + 1) % 256
                        /\ lastcall'.ret
                               = Some(MainBus_read(BusMem, STACK_OFFSET + regset'.stk_ptr))
                        /\ mem' = mem]_vars

\* a push at pointer 0xFD has put its byte at 0x01FD, where the memory held
\* another byte, and left 0x01FC as it was
C14_Witness ==
    /\ bus_conn # None
    /\ lastcall.op = "stk_push"
    /\ lastcall.arg = <<90>>
    /\ lastcall.pre.regset.stk_ptr = 253
    /\ regset.stk_ptr = 252
    /\ MainBus_read(StackMem, 509) = 90
    /\ MainBus_read(StackMem, 508) = 0

\* C15: stk_push, stk_doublepush, stk_pop and inthandle never panic and change
\* no byte outside 0x0100..0x01FF; the stack pointer moves by the number of
\* bytes pushed or popped modulo 256 (0x00 to 0xFF on a push, 0xFF to 0x00 on
\* a pop), and the byte a pop returns is the byte at 0x0100 + the new pointer,
\* an address of page 1 (0 when no bus is attached).
C15_StackStaysInPage1 ==
    [][lastcall'.op \in {"stk_push", "stk_doublepush", "stk_pop", "inthandle"}
           => /\ ~panicked'
              /\ \A b \in BusIds : OutsidePage1(mem'[b]) = OutsidePage1(mem[b])
              /\ regset'.stk_ptr \in 0..255
              /\ lastcall'.op = "stk_push"
                     => regset'.stk_ptr = (regset.stk_ptr + 255) % 256
              /\ lastcall'.op = "stk_doublepush"
                     => regset'.stk_ptr = (regset.stk_ptr + 254) % 256
              /\ (lastcall'.op = "inthandle" /\ lastcall'.ret = Some(TRUE))
                     => regset'.stk_ptr = (regset.stk_ptr + 253) % 256
              /\ lastcall'.op = "stk_pop"
                     => /\ regset'.stk_ptr = (regset.stk_ptr + 1) % 256
                        /\ STACK_OFFSET + regset'.stk_ptr \in 256..511
                        /\ lastcall'.ret
                               = Some(IF bus_conn = None THEN 0
                                      ELSE MainBus_read(BusMem,
                                                        STACK_OFFSET + regset'.stk_ptr))]_vars

\* the pointer has wrapped both ways: a push at 0x00 went to 0xFF and wrote
\* 0x0100, and the pop after it came back to 0x00
C15_Witness ==
    /\ bus_conn # None
    /\ ~panicked
    /\ Len(log) = 3
    /\ log[1].op = "stk_pop" /\ log[1].pre.stk_ptr = 255 /\ log[1].post.stk_ptr = 0
    /\ log[2].op = "stk_push" /\ log[2].post.stk_ptr = 255 /\ log[2].arg = <<90>>
    /\ log[3].op = "inthandle" /\ log[3].ret = Some(TRUE) /\ log[3].post.stk_ptr = 252
    /\ MainBus_read(StackMem, 256) = 90

\* the opcodes of the official 6502 instruction set
OfficialOpcodes ==
    {0, 1, 5, 6, 8, 9, 10, 13, 14, 16, 17, 21, 22, 24, 25, 29, 30, 32, 33, 36, 37, 38,
     40, 41, 42, 44, 45, 46, 48, 49, 53, 54, 56, 57, 61, 62, 64, 65, 69, 70, 72, 73, 74,
     76, 77, 78, 80, 81, 85, 86, 88, 89, 93, 94, 96, 97, 101, 102, 104, 105, 106, 108,
     109, 110, 112, 113, 117, 118, 120, 121, 125, 126, 129, 132, 133, 134, 136, 138,
     140, 141, 142, 144, 145, 148, 149, 150, 152, 153, 154, 157, 160, 161, 162, 164,
     165, 166, 168, 169, 170, 172, 173, 174, 176, 177, 180, 181, 182, 184, 185, 186,
     188, 189, 190, 192, 193, 196, 197, 198, 200, 201, 202, 204, 205, 206, 208, 209,
     213, 214, 216, 217, 221, 222, 224, 225, 228, 229, 230, 232, 233, 234, 236, 237,
     238, 240, 241, 245, 246, 248, 249, 253, 254}

\* the opcode the tick that was the last call fetched, if it fetched one
FetchedOpcode == MainBus_read(mem[1], lastcall.pre.regset.prog_counter)

\* C16: the instruction decoded from any opcode the table defines has
\* size == 1 + the number of operand bytes of its addressing mode (0 for Imp;
\* 1 for Imm, Zp0, Zpx, Zpy, Inx, Iny, Rel; 2 for Abs, Abx, Aby, Ind).
C16_SizeIsOnePlusOperandBytes ==
    i # None
        => i[1].size = 1 + (CASE i[1].amode = "Imp" -> 0
                              [] i[1].amode \in {"Imm", "Zp0", "Zpx", "Zpy",
                                                 "Inx", "Iny", "Rel"} -> 1
                              [] i[1].amode \in {"Abs", "Abx", "Aby", "Ind"} -> 2)

\* the table defines exactly the official opcodes; every other opcode has no
\* entry: it decodes to no instruction, nop included
IllegalOpcodesClassified ==
    \A opcode \in Byte :
        /\ opcode \in OfficialOpcodes <=> ~is_illegal(opcode)
        /\ opcode \notin OfficialOpcodes => DecodeTable[opcode] = <<>>

\* C17: each of the 256 opcodes either has an entry in the decode table (the
\* official ones) or takes the default arm (all others, none of them decoded as
\* nop or any instruction); a tick that fetches an opcode of the second kind
\* stops there: the program panics with the program counter one past the
\* opcode, no instruction decoded, no cycle charged or counted, no other
\* register and no memory changed.
C17_IllegalOpcodeStops ==
    [][/\ IllegalOpcodesClassified
       /\ (/\ lastcall'.op \in {"clock_cycle", "full_instruction"}
           /\ time.residual = 0
           /\ MainBus_read(mem[1], regset.prog_counter) \notin OfficialOpcodes)
              => /\ panicked'
                 /\ lastcall'.fetches = 1
                 /\ i' = i
                 /\ time' = time
                 /\ mem' = mem
                 /\ regset' = [regset EXCEPT !.prog_counter = (@ + 1) % 65536]]_vars

\* the opcode 0x02 was fetched and the program stopped with nothing decoded
C17_Witness ==
    /\ lastcall.op = "clock_cycle"
    /\ FetchedOpcode = 2
    /\ lastcall.pre.regset.prog_counter = 32768
    /\ panicked
    /\ i = None
    /\ regset.prog_counter = 32769

\* C18: a tick in which the addressing-mode function or the operation function
\* of the fetched instruction returns an error does not panic, and leaves the
\* registers as they were before the tick (the failed instruction has changed
\* none of them).
C18_FailureStopsInstanceOnly ==
    [][(/\ lastcall'.op = "clock_cycle"
        /\ lastcall'.arg # <<>>
        /\ lastcall'.fetches = 1)
           => /\ ~panicked'
              /\ regset' = regset]_vars

\* the last call was full_instruction(), made with the bytes A9 v at 0x8000,
\* the program counter at 0x8000 and residual == 0
LdaRan ==
    /\ lastcall.op = "full_instruction"
    /\ lastcall.pre.regset.prog_counter = 32768
    /\ lastcall.pre.time.residual = 0
    /\ bus_conn # None
    /\ MainBus_read(StackMem, 32768) = 169

\* C19: full_instruction() run on A9 v at 0x8000 returns with accumulator == v,
\* zero == (v == 0), negative == (bit 7 of v), program counter == 0x8002,
\* elapsed grown by 2 in 2 ticks and residual back at 0.
C19_LdaImmediate ==
    LdaRan
        => LET v == MainBus_read(StackMem, 32769)
           IN  /\ ~panicked
               /\ regset.accumulator = v
               /\ zero(regset) = (v = 0)
               /\ negative(regset) = (v >= 128)
               /\ regset.prog_counter = 32770
               /\ lastcall.ticks = 2
               /\ time.elapsed = lastcall.pre.time.elapsed + 2
               /\ time.residual = 0

\* A9 00 has run over an accumulator of 0x77 with the zero flag clear
C19_Witness ==
    /\ LdaRan
    /\ MainBus_read(StackMem, 32769) = 0
    /\ lastcall.pre.regset.accumulator = 119
    /\ ~zero(lastcall.pre.regset)
    /\ regset.accumulator = 0
    /\ zero(regset)
    /\ ~negative(regset)
    /\ time.elapsed = 2

\* the last call fetched the jmp (P) at 0x8000
JmpRan ==
    /\ lastcall.op \in {"clock_cycle", "full_instruction"}
    /\ lastcall.fetches = 1
    /\ lastcall.pre.regset.prog_counter = 32768
    /\ bus_conn # None
    /\ MainBus_read(StackMem, 32768) = 108

\* the pointer P of the jmp (P) at 0x8000
JmpPointer == from_le_bytes(MainBus_read(StackMem, 32769), MainBus_read(StackMem, 32770))

\* C20: jmp (P) leaves the program counter at the word whose low byte is the
\* byte at P and whose high byte is the byte at P + 1, except when the low
\* byte of P is 0xFF: then the high byte is the byte at the first address of
\* P's page (for P = 0x30FF the byte at 0x3000, not the one at 0x3100).
C20_IndirectPageWrap ==
    JmpRan
        => /\ ~panicked
           /\ regset.prog_counter
                  = from_le_bytes(MainBus_read(StackMem, JmpPointer),
                                  MainBus_read(StackMem,
                                               IF JmpPointer % 256 = 255
                                               THEN JmpPointer - 255
                                               ELSE JmpPointer + 1))

\* jmp ($30FF) with 0x80 at 0x30FF, 0x40 at 0x3000 and 0x50 at 0x3100 has
\* jumped to 0x4080
C20_Witness ==
    /\ JmpRan
    /\ JmpPointer = 12543
    /\ MainBus_read(StackMem, 12543) = 128
    /\ MainBus_read(StackMem, 12288) = 64
    /\ MainBus_read(StackMem, 12544) = 80
    /\ regset.prog_counter = 16512

---------------------------------------------------------------------------
(* A ninth specification: the bus wrappers                                 *)
(*                                                                         *)
(* The driver calls read_byte, read_word, read_some and writ_byte of a Cpu *)
(* with and without a bus, read_seq of the bus itself, the stack           *)
(* primitives, inthandle and clock_cycle. The memory of bus 1 is not       *)
(* empty, also when the Cpu is not connected to it.                        *)

\* the driver of SpecBus makes at most this many calls
MaxBusCalls == 2

BusAddresses == {0, 511, 65534, 65535}

BusLens == {0, 1, 2, 4}

\* MainBus::read_seq: `starting_address + len` overflows past 0xFFFF; the
\* result is [panic, ret], ret the Option<Vec<Byte>> returned
MainBus_read_seq(checks, m, starting_address, len) ==
    IF checks /\ starting_address + len > 65535
    THEN [panic |-> TRUE, ret |-> None]
    ELSE
        LET limit == (starting_address + len) % 65536
            n == IF limit > starting_address THEN limit - starting_address ELSE 0
            result == [k \in 1..n |-> MainBus_read(m, starting_address + k - 1)]
        IN  [panic |-> FALSE, ret |-> IF Len(result) > 0 THEN Some(result) ELSE None]

\* Cpu::read_some: the Cpu after the call, ret the Vec<Byte> returned
read_some(c, address, len) ==
    IF c.bus_conn = None THEN [c EXCEPT !.ret = Some(<<>>)]
    ELSE
        LET r == MainBus_read_seq(c.overflow_checks, c.mem[c.bus_conn[1]], address, len)
        IN  IF r.panic THEN Panic(c)
            ELSE [c EXCEPT !.ret = Some(IF r.ret = None THEN <<>> ELSE r.ret[1])]

\* Cpu::read_byte, Cpu::read_word, Cpu::writ_byte as calls
read_byte_call(c, address) == [c EXCEPT !.ret = Some(read_byte(c, address))]

read_word_call(c, address) ==
    IF read_word_overflows(c, address) THEN Panic(c)
    ELSE [c EXCEPT !.ret = Some(read_word(c, address))]

\* MainBus::read_seq of bus b as a call
read_seq_call(c, b, address, len) ==
    LET r == MainBus_read_seq(c.overflow_checks, c.mem[b], address, len)
    IN  IF r.panic THEN Panic(c) ELSE [c EXCEPT !.ret = Some(r.ret)]

InitBus ==
    /\ overflow_checks \in BOOLEAN
    /\ \E bus \in {None, Some(1)}, s \in {0, 253} :
          LET c0 == Cpu_new_connected(overflow_checks, bus)
              c == [c0 EXCEPT !.regset.stk_ptr = s, !.mem[1] = StackImage]
          IN  Holds(c) /\ lastcall = NoCall(c)
    /\ calls = 0
    /\ log = <<>>
    /\ logging = FALSE
    /\ budget = MaxBusCalls
    /\ ppu = Ppu_new
    /\ ppu_run = PpuIdle

ReadByte == CanCall /\ \E address \in BusAddresses :
                Returns("read_byte", <<address>>, read_byte_call(Self, address))

ReadWord == CanCall /\ \E address \in BusAddresses :
                Returns("read_word", <<address>>, read_word_call(Self, address))

ReadSome == CanCall /\ \E address \in BusAddresses, len \in BusLens :
                Returns("read_some", <<address, len>>, read_some(Self, address, len))

WritByte == CanCall /\ \E address \in BusAddresses :
                Returns("writ_byte", <<address, 90>>, writ_byte(Self, address, 90))

ReadSeq == CanCall /\ \E address \in BusAddresses, len \in BusLens :
               Returns("read_seq", <<1, address, len>>, read_seq_call(Self, 1, address, len))

NextBus ==
    \/ ReadByte
    \/ ReadWord
    \/ ReadSome
    \/ WritByte
    \/ ReadSeq
    \/ StkPush
    \/ StkPop
    \/ Inthandle
    \/ ClockCycle

SpecBus == InitBus /\ [][NextBus]_vars

---------------------------------------------------------------------------
(* A tenth specification: reset and the ticks after it                     *)
(*                                                                         *)
(* The driver resets and ticks a Cpu whose registers and residual cycles   *)
(* are drawn from the sets below; lda #5 stands at 0x8000.                 *)

\* the driver of SpecReset makes at most this many calls
MaxResetCalls == 10

ResetStatuses == {36, 255}

ResetResiduals == {0, 5}

InitReset ==
    /\ overflow_checks \in BOOLEAN
    /\ \E p \in ResetStatuses, res \in ResetResiduals, bus \in {None, Some(1)} :
          LET c0 == Cpu_new_connected(overflow_checks, bus)
              c == [c0 EXCEPT !.regset = [accumulator |-> 119, x_index |-> 7,
                                          y_index |-> 9, stk_ptr |-> 0, status |-> p,
                                          prog_counter |-> 4863],
                              !.time.residual = res,
                              !.mem[1] = (32768 :> 169) @@ (32769 :> 5)]
          IN  Holds(c) /\ lastcall = NoCall(c)
    /\ calls = 0
    /\ log = <<>>
    /\ logging = TRUE
    /\ budget = MaxResetCalls
    /\ ppu = Ppu_new
    /\ ppu_run = PpuIdle

NextReset ==
    \/ Reset
    \/ ClockCycle

SpecReset == InitReset /\ [][NextReset]_vars

---------------------------------------------------------------------------
(* An eleventh specification: the flag accessors                           *)
(*                                                                         *)
(* The driver calls the eight flag getters and the eight flag setters of   *)
(* the RegisterSet (through regset() and regset_mut()), from every status  *)
(* byte.                                                                   *)

\* the driver of SpecFlags makes at most this many calls
MaxFlagCalls == 1

\* the getter and the setter of the flag declared for bit n
flag_get(r, n) ==
    CASE n = 0 -> carry(r)
      [] n = 1 -> zero(r)
      [] n = 2 -> irq_disabled(r)
      [] n = 3 -> decimal_mode(r)
      [] n = 4 -> brk_flag(r)
      [] n = 5 -> unused(r)
      [] n = 6 -> overflowed(r)
      [] n = 7 -> negative(r)

flag_set(r, n, v) ==
    CASE n = 0 -> set_carry(r, v)
      [] n = 1 -> set_zero(r, v)
      [] n = 2 -> set_irq_disabled(r, v)
      [] n = 3 -> set_decimal_mode(r, v)
      [] n = 4 -> set_brk(r, v)
      [] n = 5 -> set_unused(r, v)
      [] n = 6 -> set_overflowed(r, v)
      [] n = 7 -> set_negative(r, v)

InitFlags ==
    /\ overflow_checks \in BOOLEAN
    /\ \E p \in Byte :
          LET c0 == Cpu_new(overflow_checks)
              c == [c0 EXCEPT !.regset = [accumulator |-> 119, x_index |-> 7,
                                          y_index |-> 9, stk_ptr |-> 253, status |-> p,
                                          prog_counter |-> 4863]]
          IN  Holds(c) /\ lastcall = NoCall(c)
    /\ calls = 0
    /\ log = <<>>
    /\ logging = FALSE
    /\ budget = MaxFlagCalls
    /\ ppu = Ppu_new
    /\ ppu_run = PpuIdle

GetFlag == CanCall /\ \E n \in 0..7 :
               Returns("get_flag", <<n>>, [Self EXCEPT !.ret = Some(flag_get(regset, n))])

SetFlag == CanCall /\ \E n \in 0..7, v \in BOOLEAN :
               Returns("set_flag", <<n, v>>, with_reg(Self, flag_set(regset, n, v)))

NextFlags ==
    \/ GetFlag
    \/ SetFlag

SpecFlags == InitFlags /\ [][NextFlags]_vars

---------------------------------------------------------------------------
(* A twelfth specification: program loads at the limits                    *)
(*                                                                         *)
(* The driver loads programs into a connected Cpu: loads that fit, a load  *)
(* that ends at the top of memory, one that runs past it, one whose limit  *)
(* exceeds the program's length, and an empty one.                         *)

\* the driver of SpecLoad makes at most this many calls
MaxLoadCalls == 2

\* <<program, begin, limit>>
EdgeLoads ==
    { <<(<<7, 8>>), 4096, 2>>,
      <<(<<7, 8, 9>>), 65533, 2>>,
      <<(<<1, 2>>), 65534, 2>>,
      <<(<<1, 2, 3>>), 65534, 3>>,
      <<(<<1, 2>>), 32768, 3>>,
      <<(<<1, 2>>), 32768, 0>> }

InitLoad ==
    /\ overflow_checks \in BOOLEAN
    /\ \E pc \in CustomPcs \cup {0} :
          LET c0 == Cpu_new_connected(overflow_checks, Some(1))
              c == [c0 EXCEPT !.regset.prog_counter = pc, !.mem[1] = StackImage]
          IN  Holds(c) /\ lastcall = NoCall(c)
    /\ calls = 0
    /\ log = <<>>
    /\ logging = TRUE
    /\ budget = MaxLoadCalls
    /\ ppu = Ppu_new
    /\ ppu_run = PpuIdle

LoadProgramEdge == CanCall /\ \E ld \in EdgeLoads, start_it \in BOOLEAN :
                       Returns("load_program", <<ld[1], ld[2], ld[3], start_it>>,
                               load_program(Self, ld[1], ld[2], ld[3], start_it))

NextLoad == LoadProgramEdge \/ ReadByte

SpecLoad == InitLoad /\ [][NextLoad]_vars

---------------------------------------------------------------------------
(* A thirteenth specification: disassembly                                 *)
(*                                                                         *)
(* The driver disassembles windows of a memory that holds a short program, *)
(* a byte no instruction is assigned to, and an instruction in the last    *)
(* three bytes of the address space; it also loads operands directly and   *)
(* ticks, so that a call can fall between two ticks of an instruction.     *)

\* load_operand: the operand of `instr`, found at `address`, is loaded through
\* the Cpu, whose program counter and instruction slot are saved and restored
load_operand(c, instr, address) ==
    LET saved_pc == c.regset.prog_counter
        saved_i == c.i
        c1 == [c EXCEPT !.regset.prog_counter = (address + 1) % 65536,
                        !.i = Some(instr)]
        c2 == load_operand_curr_i(c1)
    IN  IF c2.panicked THEN [cpu |-> c2, i |-> instr]
        ELSE [cpu |-> [c2 EXCEPT !.i = saved_i, !.regset.prog_counter = saved_pc],
              i |-> c2.i[1]]

RECURSIVE from_addr_range_loop(_, _, _, _)
\* the `while address < end_address` loop of Asm::from_addr_range:
\* make_illegal! is unimplemented!(), and `address += i.size` overflows
from_addr_range_loop(c, address, end_address, code) ==
    IF address >= end_address THEN [cpu |-> c, code |-> code]
    ELSE
        LET opcode == read_byte(c, address)
        IN  IF is_illegal(opcode) THEN [cpu |-> Panic(c), code |-> code]
            ELSE
                LET lo == load_operand(c, decode_by(opcode), address)
                    next == address + lo.i.size
                IN  IF lo.cpu.panicked THEN [cpu |-> lo.cpu, code |-> code]
                    ELSE IF c.overflow_checks /\ next > 65535
                    THEN [cpu |-> Panic(lo.cpu), code |-> code]
                    ELSE from_addr_range_loop(lo.cpu, next % 65536, end_address,
                                              Append(code, lo.i))

\* Asm::from_addr_range: `begin_address + limit` overflows past 0xFFFF
from_addr_range(c, begin_address, limit) ==
    IF c.overflow_checks /\ begin_address + limit > 65535
    THEN [cpu |-> Panic(c), code |-> <<>>]
    ELSE from_addr_range_loop(c, begin_address, (begin_address + limit) % 65536, <<>>)

\* Cpu::disassemble
disassemble(c, begin, limit) ==
    IF c.bus_conn = None THEN [c EXCEPT !.ret = None]
    ELSE
        LET asm == from_addr_range(c, begin, limit)
        IN  IF asm.cpu.panicked THEN asm.cpu
            ELSE [asm.cpu EXCEPT !.ret = IF Len(asm.code) > 0 THEN Some(asm.code)
                                         ELSE None]

\* the driver of SpecDis makes at most this many calls
MaxDisCalls == 2

\* 0x8000: lda #5; sta $2000; nop; then 0x02, which no instruction is assigned to
\* 0x9000: ror $2000; nop
\* 0xFFFD: jmp $8000, and 0x02 at address 0
DisImage ==
    (0 :> 2)
    @@ (32768 :> 169) @@ (32769 :> 5) @@ (32770 :> 141) @@ (32772 :> 32)
    @@ (32773 :> 234) @@ (32774 :> 2)
    @@ (36864 :> 126) @@ (36866 :> 32) @@ (36867 :> 234)
    @@ (65533 :> 76) @@ (65535 :> 128)

DisBegins == {32768, 36864, 65533}

DisLimits == {0, 2, 3, 6, 7}

InitDis ==
    /\ overflow_checks \in BOOLEAN
    /\ \E bus \in {None, Some(1)}, pc \in CustomPcs :
          LET c0 == Cpu_new_connected(overflow_checks, bus)
              c == [c0 EXCEPT !.regset.prog_counter = pc, !.mem[1] = DisImage]
          IN  Holds(c) /\ lastcall = NoCall(c)
    /\ calls = 0
    /\ log = <<>>
    /\ logging = TRUE
    /\ budget = MaxDisCalls
    /\ ppu = Ppu_new
    /\ ppu_run = PpuIdle

Disassemble == CanCall /\ \E begin \in DisBegins, limit \in DisLimits :
                   Returns("disassemble", <<begin, limit>>, disassemble(Self, begin, limit))

\* the instructions the driver hands to load_operand: nop, lda #, jmp abs
OperandInstructions == {234, 169, 76}

OperandAddresses == {32768, 32770, 65533, 65535}

\* load_operand(cpu, &mut i, address): the call returns the instruction it filled
LoadOperand == CanCall /\ \E opcode \in OperandInstructions, address \in OperandAddresses :
                   LET lo == load_operand(Self, decode_by(opcode), address)
                   IN  Returns("load_operand", <<opcode, address>>,
                               IF lo.cpu.panicked THEN lo.cpu
                               ELSE [lo.cpu EXCEPT !.ret = Some(lo.i)])

NextDis == Disassemble \/ LoadOperand \/ ClockCycle

SpecDis == InitDis /\ [][NextDis]_vars

---------------------------------------------------------------------------
(* A fourteenth specification: cycle accounting                            *)
(*                                                                         *)
(* The driver may reset or interrupt in its first calls and then ticks     *)
(* through a program of instructions of different costs that ends in a     *)
(* jump back to its start; both interrupt vectors point into the program.  *)

\* the driver of SpecCycles makes at most this many calls
MaxCycleCalls == 10

\* and resets or interrupts only in the first of them
MaxSetupCalls == 2

\* 0x8000: lda #5 (2 cycles); sta $2000 (4); inc $2000 (6); nop (2); jmp $8000 (3)
\* NMI vector 0x8002, IRQ vector 0x8005
CycleImage ==
    (32768 :> 169) @@ (32769 :> 5)
    @@ (32770 :> 141) @@ (32772 :> 32)
    @@ (32773 :> 238) @@ (32775 :> 32)
    @@ (32776 :> 234)
    @@ (32777 :> 76) @@ (32779 :> 128)
    @@ (65530 :> 2) @@ (65531 :> 128) @@ (65534 :> 5) @@ (65535 :> 128)

CyclePcs == {32768, 32773, 32776}

CycleStatuses == {32, 36}

InitCycles ==
    /\ overflow_checks \in BOOLEAN
    /\ \E pc \in CyclePcs, p \in CycleStatuses, bus \in {None, Some(1)} :
          LET c0 == Cpu_new_connected(overflow_checks, bus)
              c == [c0 EXCEPT !.regset.prog_counter = pc, !.regset.status = p,
                              !.mem[1] = CycleImage]
          IN  Holds(c) /\ lastcall = NoCall(c)
    /\ calls = 0
    /\ log = <<>>
    /\ logging = TRUE
    /\ budget = MaxCycleCalls
    /\ ppu = Ppu_new
    /\ ppu_run = PpuIdle

SetupReset == calls < MaxSetupCalls /\ Reset

SetupInthandle == calls < MaxSetupCalls /\ Inthandle

NextCycles == ClockCycle \/ SetupReset \/ SetupInthandle

SpecCycles == InitCycles /\ [][NextCycles]_vars

---------------------------------------------------------------------------
(* A fifteenth specification: operand loading                              *)
(*                                                                         *)
(* One opcode of every addressing mode stands at the program counter, at   *)
(* addresses that include the last two of the address space; the two bytes *)
(* after it are 0x34 and 0x12.                                             *)

\* the driver of SpecOperand makes at most this many calls
MaxOperandCalls == 2

\* nop; lda #, zp, zp,x; ldx zp,y; lda abs, abs,x, abs,y, (zp,x), (zp),y;
\* bcc, bcs; jmp (ind)
OperandOpcodes == {234, 169, 165, 181, 182, 173, 189, 185, 161, 177, 144, 176, 108}

OperandPcs == {32768, 33023, 65534, 65535}

OperandImage(p, opcode) ==
    (p :> opcode) @@ (((p + 1) % 65536) :> 52) @@ (((p + 2) % 65536) :> 18)

InitOperand ==
    /\ overflow_checks \in BOOLEAN
    /\ \E p \in OperandPcs, opcode \in OperandOpcodes :
          LET c0 == Cpu_new_connected(overflow_checks, Some(1))
              c == [c0 EXCEPT !.regset.prog_counter = p,
                              !.regset.x_index = 1, !.regset.y_index = 2,
                              !.mem[1] = OperandImage(p, opcode)]
          IN  Holds(c) /\ lastcall = NoCall(c)
    /\ calls = 0
    /\ log = <<>>
    /\ logging = TRUE
    /\ budget = MaxOperandCalls
    /\ ppu = Ppu_new
    /\ ppu_run = PpuIdle

NextOperand == ClockCycle \/ FullInstruction

SpecOperand == InitOperand /\ [][NextOperand]_vars

---------------------------------------------------------------------------
(* A sixteenth specification: the PPU's dot counter                        *)
(*                                                                         *)
(* The driver clocks and resets the PPU and clears its frame flag in any   *)
(* order, and calls full_frame, whose loop runs one clock per step; while  *)
(* full_frame runs, no other call is made. The Cpu is left alone.          *)

CpuUntouched ==
    UNCHANGED <<regset, time, inter, bus_conn, i, mem, panicked, overflow_checks,
                lastcall, calls, log, logging, budget>>

InitPpu ==
    /\ overflow_checks = TRUE
    /\ LET c == Cpu_new(overflow_checks)
       IN  Holds(c) /\ lastcall = NoCall(c)
    /\ calls = 0
    /\ log = <<>>
    /\ logging = FALSE
    /\ budget = 0
    /\ ppu = Ppu_new
    /\ ppu_run = PpuIdle

\* one pass of Ppu::clock, and the history it leaves
Clocked ==
    /\ ppu' = Ppu_clock(ppu)
    /\ ppu_run' = [ppu_run EXCEPT !.last = "clock",
                                  !.since = IF ppu'.frame_end THEN 0 ELSE @ + 1,
                                  !.clean = IF ppu'.frame_end THEN TRUE ELSE @]

PpuClock == ppu_run.pc = "idle" /\ Clocked /\ CpuUntouched

PpuReset ==
    /\ ppu_run.pc = "idle"
    /\ ppu' = Ppu_reset(ppu)
    /\ ppu_run' = [ppu_run EXCEPT !.last = "reset", !.since = 0, !.clean = FALSE]
    /\ CpuUntouched

PpuFrameReset ==
    /\ ppu_run.pc = "idle"
    /\ ppu' = Ppu_frame_reset(ppu)
    /\ ppu_run' = [ppu_run EXCEPT !.last = "frame_reset"]
    /\ CpuUntouched

\* Ppu::full_frame is entered
FullFrameCall ==
    /\ ppu_run.pc = "idle"
    /\ ppu_run' = [ppu_run EXCEPT !.pc = "full_frame", !.last = "full_frame"]
    /\ UNCHANGED ppu
    /\ CpuUntouched

\* `while self.frame_has_ended() == false { self.clock(); }`
FullFrameLoop ==
    /\ ppu_run.pc = "full_frame"
    /\ ~ppu.frame_end
    /\ Clocked
    /\ CpuUntouched

\* the loop is left, and `self.frame_reset()` ends the call
FullFrameReturn ==
    /\ ppu_run.pc = "full_frame"
    /\ ppu.frame_end
    /\ ppu' = Ppu_frame_reset(ppu)
    /\ ppu_run' = [ppu_run EXCEPT !.pc = "idle", !.last = "returned"]
    /\ CpuUntouched

NextPpu ==
    \/ PpuClock
    \/ PpuReset
    \/ PpuFrameReset
    \/ FullFrameCall
    \/ FullFrameLoop
    \/ FullFrameReturn

SpecPpu == InitPpu /\ [][NextPpu]_vars

\* a call of full_frame is not abandoned half-way
SpecPpuFair == SpecPpu /\ WF_vars(FullFrameLoop) /\ WF_vars(FullFrameReturn)

\* full_frame returns
FullFrameTerminates == (ppu_run.pc = "full_frame") ~> (ppu_run.pc = "idle")

---------------------------------------------------------------------------
(* Claims C21..C30 *)

\* C21: on a Cpu with no bus attached, read_byte and read_word return 0 for
\* every address, read_some returns the empty sequence, writ_byte changes
\* nothing, and none of these calls, no stack push or pop, no inthandle and no
\* clock tick panics or changes any memory.
C21_NoBusIsInert ==
    [][(/\ bus_conn = None
        /\ lastcall'.op \in {"read_byte", "read_word", "read_some", "writ_byte",
                             "stk_push", "stk_pop", "inthandle", "clock_cycle"})
           => /\ ~panicked'
              /\ mem' = mem
              /\ bus_conn' = None
              /\ lastcall'.op \in {"read_byte", "read_word"} => lastcall'.ret = Some(0)
              /\ lastcall'.op = "read_some" => lastcall'.ret = Some(<<>>)
              /\ lastcall'.op = "stk_pop" => lastcall'.ret = Some(0)
              /\ lastcall'.op \in {"read_byte", "read_word", "read_some", "writ_byte"}
                     => regset' = regset /\ time' = time /\ i' = i]_vars

\* C28: read_seq(a, len) of a MainBus returns the bytes at a, a + 1, ... up to
\* min(a + len, 0x10000) - 1 in ascending order (fewer than len when the range
\* reaches past 0xFFFF), and returns None only when len == 0.
C28_ReadSeqReturnsRange ==
    [][lastcall'.op = "read_seq"
           => LET a == lastcall'.arg[2]
                  len == lastcall'.arg[3]
                  last == IF a + len > 65536 THEN 65536 ELSE a + len
                  bytes == [k \in 1..(last - a) |-> MainBus_read(mem[1], a + k - 1)]
              IN  /\ ~panicked'
                  /\ lastcall'.ret = Some(IF len = 0 THEN None ELSE Some(bytes))]_vars

\* C22: connect_to(conn) attaches conn when no bus is attached and changes
\* nothing when one is; no other call changes the connection. So the Cpu stays
\* connected to the bus given at construction or, failing that, to the bus of
\* the first connect_to, and every later connect_to changes no state.
C22_FirstAttachmentWins ==
    [][/\ lastcall'.op = "connect_to"
              => /\ bus_conn' = IF bus_conn = None THEN Some(lastcall'.arg[1]) ELSE bus_conn
                 /\ ~panicked'
                 /\ regset' = regset /\ time' = time /\ inter' = inter
                 /\ i' = i /\ mem' = mem
       /\ lastcall'.op # "connect_to" => bus_conn' = bus_conn]_vars

\* connect_to(2) has been called on a Cpu attached to bus 1, which it still is
C22_Witness ==
    /\ lastcall.op = "connect_to"
    /\ lastcall.arg = <<2>>
    /\ bus_conn = Some(1)
    /\ calls >= 2

\* the calls made since the last reset(), all of them clock ticks in SpecReset
\* (-1 when there was no reset)
TicksSinceReset ==
    IF \E k \in 1..Len(log) : log[k].op = "reset"
    THEN Len(log) - (CHOOSE k \in 1..Len(log) :
                        /\ log[k].op = "reset"
                        /\ \A j \in (k + 1)..Len(log) : log[j].op # "reset")
    ELSE 0 - 1

\* C23: reset() leaves accumulator = X = Y = 0, stack pointer 0xFD, status
\* 0x20, program counter 0x8000 and residual 8, and the bus connection and
\* the memory as they were; each of the 8 ticks after it fetches no opcode and
\* leaves the registers alone, and the ninth fetches the opcode at 0x8000 (with
\* a bus attached, the lda #5 that stands there).
C23_ResetDefaults ==
    [][/\ lastcall'.op = "reset"
              => /\ ~panicked'
                 /\ regset' = [accumulator |-> 0, x_index |-> 0, y_index |-> 0,
                               stk_ptr |-> 253, status |-> 32, prog_counter |-> 32768]
                 /\ time'.residual = 8
                 /\ bus_conn' = bus_conn
                 /\ mem' = mem
       /\ (lastcall'.op = "clock_cycle" /\ TicksSinceReset \in 0..7)
              => /\ ~panicked'
                 /\ lastcall'.fetches = 0
                 /\ regset' = regset
                 /\ time'.residual = 7 - TicksSinceReset
       /\ (lastcall'.op = "clock_cycle" /\ TicksSinceReset = 8)
              => /\ lastcall'.fetches = 1
                 /\ bus_conn # None => regset'.prog_counter = 32770]_vars

\* a reset from a state with every register set and 5 cycles outstanding,
\* followed by 8 ticks that fetched nothing and a ninth that fetched
C23_Witness ==
    /\ Len(log) = 10
    /\ log[1].op = "reset"
    /\ log[1].pre.accumulator = 119 /\ log[1].pre.status = 255
    /\ log[1].post.status = 32 /\ log[1].post.prog_counter = 32768
    /\ \A k \in 2..9 : log[k].op = "clock_cycle" /\ log[k].fetches = 0
    /\ log[10].op = "clock_cycle" /\ log[10].fetches = 1
    /\ bus_conn # None
    /\ regset.accumulator = 5

\* C24: a Cpu no call has been made on has accumulator = X = Y = 0, stack
\* pointer 0xFD, status 0x24 (interrupt-disable and unused set, the other
\* flags clear), elapsed = residual = 0, both interrupt latches clear and no
\* current instruction; its program counter is 0 from new and new_connected
\* and the value given from new_custompc.
C24_ConstructionDefaults ==
    /\ calls = 0
           => /\ regset.accumulator = 0 /\ regset.x_index = 0 /\ regset.y_index = 0
              /\ regset.stk_ptr = 253
              /\ regset.status = 36
              /\ irq_disabled(regset) /\ unused(regset)
              /\ ~carry(regset) /\ ~zero(regset) /\ ~decimal_mode(regset)
              /\ ~brk_flag(regset) /\ ~overflowed(regset) /\ ~negative(regset)
              /\ regset.prog_counter \in {0} \cup CustomPcs
              /\ time = [elapsed |-> 0, residual |-> 0]
              /\ inter = [pending_nmi |-> FALSE, pending_irq |-> FALSE]
              /\ i = None
              /\ ~panicked
    /\ Cpu_new(overflow_checks).regset.prog_counter = 0
    /\ \A bus \in BusIds :
           Cpu_new_connected(overflow_checks, Some(bus)).regset.prog_counter = 0
    /\ \A pc \in CustomPcs :
           Cpu_new_custompc(overflow_checks, pc).regset.prog_counter = pc

\* a Cpu fresh from new_custompc(0x8000)
C24_Witness ==
    /\ calls = 0
    /\ lastcall.op = "new"
    /\ regset.prog_counter = 32768
    /\ regset.status = 36
    /\ bus_conn = None

\* C25: for every status byte, every flag n (carry 0, zero 1, interrupt-disable
\* 2, decimal 3, break 4, unused 5, overflow 6, negative 7) and every boolean
\* v, the setter of n called with v leaves a status whose bit n is v and whose
\* other seven bits are as before, and every other register as before; the
\* getter of n returns bit n of the status and changes nothing.
C25_FlagAccessors ==
    [][/\ lastcall'.op = "set_flag"
              => LET n == lastcall'.arg[1]
                     v == lastcall'.arg[2]
                 IN  /\ flag_get(regset', n) = v
                     /\ Bit(regset'.status, n) = (IF v THEN 1 ELSE 0)
                     /\ regset'.status \in Byte
                     /\ \A m \in (0..7) \ {n} :
                            Bit(regset'.status, m) = Bit(regset.status, m)
                     /\ regset' = [regset EXCEPT !.status = regset'.status]
                     /\ time' = time /\ inter' = inter /\ i' = i /\ mem' = mem
                     /\ ~panicked'
       /\ lastcall'.op = "get_flag"
              => /\ lastcall'.ret = Some(Bit(regset.status, lastcall'.arg[1]) = 1)
                 /\ regset' = regset
                 /\ time' = time /\ inter' = inter /\ i' = i /\ mem' = mem
                 /\ ~panicked']_vars

\* set_zero(false) has cleared bit 1 of the status 0xFF and nothing else
C25_Witness ==
    /\ lastcall.op = "set_flag"
    /\ lastcall.arg = <<1, FALSE>>
    /\ lastcall.pre.regset.status = 255
    /\ regset.status = 253
    /\ regset.accumulator = 119

C27_LoadStoresEveryByte ==
    [][(lastcall'.op = "load_program" /\ bus_conn # None)
           => LET program == lastcall'.arg[1]
                  begin == lastcall'.arg[2]
                  limit == lastcall'.arg[3]
                  fits == limit <= Len(program) /\ begin + limit <= 65536
              IN  /\ ~panicked'
                  /\ ~fits => lastcall'.ret[1] = "Err"
                  /\ (fits /\ lastcall'.ret[1] = "Ok")
                         => \A k \in 0..(limit - 1) :
                                MainBus_read(BusMem, begin + k) = program[k + 1]]_vars

\* the bytes an instruction occupies: its opcode and the operand bytes loaded
ByteLength(instr) == 1 + num_fetched(instr.amode)

\* C29: disassemble(begin, limit) returns and does not panic; without a bus it
\* returns None; with a bus and a non-empty window it returns a listing whose
\* first instruction is the one decoded at begin, in which each next instruction
\* is decoded at the previous one's address plus the previous one's byte length,
\* in which every instruction starts in [begin, begin + limit), and which
\* reaches the end of the window.
C29_DisassemblyCoversWindow ==
    [][lastcall'.op = "disassemble"
           => LET begin == lastcall'.arg[1]
                  limit == lastcall'.arg[2]
                  ret == lastcall'.ret
              IN  /\ ~panicked'
                  /\ bus_conn = None => ret = None
                  /\ (bus_conn # None /\ limit > 0)
                         => /\ ret # None
                            /\ LET code == ret[1]
                                   n == Len(code)
                               IN  /\ code[1].loaded_from = begin
                                   /\ code[1].mnemonic
                                          = decode_by(MainBus_read(StackMem, begin)).mnemonic
                                   /\ \A k \in 2..n :
                                          /\ code[k].loaded_from
                                                 = code[k - 1].loaded_from
                                                       + ByteLength(code[k - 1])
                                          /\ code[k].mnemonic
                                                 = decode_by(MainBus_read(StackMem,
                                                        code[k].loaded_from)).mnemonic
                                   /\ \A k \in 1..n :
                                          /\ begin <= code[k].loaded_from
                                          /\ code[k].loaded_from < begin + limit
                                   /\ code[n].loaded_from + ByteLength(code[n])
                                          >= begin + limit]_vars

---------------------------------------------------------------------------
(* Claims C31..C37 *)

\* the opcode the k-th logged call read at its program counter
LoggedOpcode(k) ==
    IF bus_conn = None THEN 0 ELSE MainBus_read(mem[1], log[k].pre.prog_counter)

\* the instruction pays its base cost only: no branch, no indexed read
BaseCostOnly(opcode) ==
    decode_by(opcode).amode \notin {"Rel", "Abx", "Aby", "Iny"}

\* after the k-th logged call, as long as ticks follow one another, the first
\* n of them fetch nothing and the one after them fetches
QuietThenFetch(k, n) ==
    \A j \in 1..(n + 1) :
        (/\ k + j <= Len(log)
         /\ \A m \in 1..j : log[k + m].op = "clock_cycle")
            => log[k + j].fetches = (IF j = n + 1 THEN 1 ELSE 0)

\* the ticks logged so far are accounted for
CyclesAccounted ==
    \A k \in 1..Len(log) :
        /\ (/\ log[k].op = "clock_cycle"
            /\ log[k].fetches = 1
            /\ ~is_illegal(LoggedOpcode(k))
            /\ BaseCostOnly(LoggedOpcode(k)))
               => QuietThenFetch(k, decode_by(LoggedOpcode(k)).time - 1)
        /\ log[k].op = "reset" => QuietThenFetch(k, 8)
        /\ (log[k].op = "inthandle" /\ log[k].ret = Some(TRUE))
               => QuietThenFetch(k, IF log[k].arg[1] = "Nmi" THEN 8 ELSE 7)

\* C31: a tick fetches an opcode exactly when it is entered with residual = 0;
\* after the tick that fetched a legal opcode of base cost N (no branch or
\* page-cross penalty) the next N - 1 ticks fetch nothing and the N-th fetches;
\* after a reset 8 ticks, and after an accepted interrupt 8 (NMI) or 7 (IRQ)
\* ticks, fetch nothing and the next one fetches.
C31_CycleAccounting ==
    [][/\ lastcall'.op = "clock_cycle"
              => (lastcall'.fetches = 1 <=> time.residual = 0)
       /\ lastcall'.op = "clock_cycle" => lastcall'.fetches \in {0, 1}
       /\ CyclesAccounted']_vars

\* the sixth tick after the fetch of inc $2000 (6 cycles) fetches the nop
C31_Witness ==
    /\ Len(log) >= 7
    /\ \E k \in 1..(Len(log) - 6) :
          /\ log[k].op = "clock_cycle" /\ log[k].fetches = 1
          /\ log[k].pre.prog_counter = 32773
          /\ \A j \in 1..5 : log[k + j].op = "clock_cycle" /\ log[k + j].fetches = 0
          /\ log[k + 6].op = "clock_cycle" /\ log[k + 6].fetches = 1
          /\ log[k + 6].pre.prog_counter = 32776
    /\ bus_conn # None

\* the operand bytes of an addressing mode
OperandBytes(amode) ==
    CASE amode = "Imp" -> 0
      [] amode \in {"Imm", "Zp0", "Zpx", "Zpy", "Inx", "Iny", "Rel"} -> 1
      [] amode \in {"Abs", "Abx", "Aby", "Ind"} -> 2

\* the operations that assign the program counter
JumpOps ==
    {"jmp", "jsr", "rts", "rti", "brk", "bcc", "bcs", "bne", "beq", "bpl", "bmi",
     "bvc", "bvs"}

\* C32: a tick that fetches a legal opcode from program counter p does not
\* panic and leaves an instruction whose load address is p, for p = 0xFFFF too,
\* and whose operand is absent for a mode of 0 operand bytes, the byte at p + 1
\* for 1, and the word with low byte at p + 1 and high byte at p + 2 for 2;
\* addressing finds the program counter at p + 1 + n (mod 2^16): it is where an
\* operation that does not jump leaves it, and what a Relative target is
\* measured from.
C32_OperandLoading ==
    [][(/\ lastcall'.op = "clock_cycle"
        /\ calls = 0
        /\ ~is_illegal(MainBus_read(mem[1], regset.prog_counter)))
           => LET p == regset.prog_counter
                  ins == decode_by(MainBus_read(mem[1], p))
                  n == OperandBytes(ins.amode)
                  lo == MainBus_read(mem[1], (p + 1) % 65536)
                  hi == MainBus_read(mem[1], (p + 2) % 65536)
              IN  /\ ~panicked'
                  /\ i' # None
                  /\ i'[1].loaded_from = p
                  /\ i'[1].operand = (CASE n = 0 -> None
                                        [] n = 1 -> Some(lo)
                                        [] n = 2 -> Some(lo + 256 * hi))
                  /\ ins.fun \notin JumpOps
                         => regset'.prog_counter = (p + 1 + n) % 65536
                  /\ ins.amode = "Rel"
                         => i'[1].amode_output.address
                                = (p + 1 + n + signed8(lo) + 65536) % 65536]_vars

\* the opcode of the instruction in the slot, read where it was loaded from
SlotOpcode == MainBus_read(mem[1], i[1].loaded_from)

\* the layout of a read-modify-write operation: Absolute, 6 cycles, 3 bytes at
\* one opcode and Absolute,X, 7 cycles, 3 bytes at the other
RmwLayout(abs_opcode, abx_opcode, name) ==
    /\ SlotOpcode = abs_opcode
           => /\ i[1].fun = name /\ i[1].amode = "Abs"
              /\ i[1].time = 6 /\ i[1].size = 3
    /\ SlotOpcode = abx_opcode
           => /\ i[1].fun = name /\ i[1].amode = "Abx"
              /\ i[1].time = 7 /\ i[1].size = 3

\* C33: the instruction decoded from 0x6E is ROR, Absolute, 6 cycles, size 3
\* and the one decoded from 0x7E is ROR, Absolute,X, 7 cycles, size 3: the
\* layout of ASL (0x0E/0x1E), ROL (0x2E/0x3E) and LSR (0x4E/0x5E).
C33_RorLayout ==
    i # None
        => /\ RmwLayout(14, 30, "asl")
           /\ RmwLayout(46, 62, "rol")
           /\ RmwLayout(78, 94, "lsr")
           /\ RmwLayout(110, 126, "ror")

\* C34: the mnemonic of a decoded instruction is the name of its operation.
C34_MnemonicNamesOperation ==
    i # None => i[1].mnemonic = i[1].fun

\* C35: a call of load_operand or of disassemble leaves the registers, the
\* program counter among them, the timing, the memory, the interrupt latches,
\* the bus connection and the instruction slot as they were before the call,
\* also between two ticks of an instruction in flight.
C35_DisassemblyLeavesCpuAlone ==
    [][lastcall'.op \in {"load_operand", "disassemble"}
           => /\ regset' = regset
              /\ time' = time
              /\ mem' = mem
              /\ inter' = inter
              /\ bus_conn' = bus_conn
              /\ i' = i]_vars

\* C36: in every state of the dot counter 0 <= cycles <= HORIZONTAL_LIMIT and
\* -1 <= scanline <= VERTICAL_LIMIT.
C36_DotInRange ==
    /\ 0 <= ppu.dot.cycles /\ ppu.dot.cycles <= HORIZONTAL_LIMIT
    /\ 0 - 1 <= ppu.dot.scanline /\ ppu.dot.scanline <= VERTICAL_LIMIT

\* the clocks of a frame: 341 dots on each of 262 scanlines
FrameClocks == (HORIZONTAL_LIMIT + 1) * (VERTICAL_LIMIT + 2)

\* C37: a clock ends the frame exactly when it takes the scanline from 260 to
\* -1; a frame end comes exactly 341 x 262 clocks after the frame end, or the
\* construction, before it when no reset fell between them; full_frame clocks
\* only while no frame has ended and returns with the frame flag cleared and
\* the dot where the frame end left it.
C37_FrameSignalling ==
    [][/\ ppu_run'.last = "clock"
              => /\ ppu'.frame_end
                        <=> (ppu.dot.scanline = VERTICAL_LIMIT /\ ppu'.dot.scanline = 0 - 1)
                 /\ (ppu'.frame_end /\ ppu_run.clean) => ppu_run.since + 1 = FrameClocks
                 /\ ppu_run.pc = "full_frame" => ~ppu.frame_end
       /\ ppu_run'.last = "returned"
              => /\ ~ppu'.frame_end
                 /\ ppu'.dot = ppu.dot]_vars

====
